---------------------------- MODULE Spec2Model ----------------------------
(***************************************************************************)
(* State-machine model of src/script.js (ballz-game).                      *)
(*                                                                         *)
(* The source file holds two successive versions of the engine, each with  *)
(* its own RNG, Block, Ball and Game classes:                              *)
(*   - lines 1..559    the "grid" game: rows of blocks and pickups that    *)
(*                     descend one row per turn, game over at the bottom;  *)
(*   - lines 561..1305 the "barrier" game: floating barriers, no rows.     *)
(* The variable `variant` says which Game object a behaviour is about.     *)
(*                                                                         *)
(* Numbers.  Counters (turn, score, strength, columns, rows) are integers. *)
(* Every other number of the program (positions, velocities, times, angles *)
(* and the values of RNG.next()) is the IEEE-754 binary64 number that      *)
(* JavaScript computes, kept as <<sign, exponent, hi, lo>>: its value is   *)
(* sign * (hi * 2^26 + lo) * 2^exponent with a 53-bit significand          *)
(* (2^26 <= hi < 2^27, 0 <= lo < 2^26), and zero is <<0, 0, 0, 0>>.        *)
(* Sums, differences and products are rounded to nearest, ties to even, as *)
(* the machine does; Math.cos, Math.sin and Math.atan2 are tables of the   *)
(* float64 values for the angles and pointer offsets of the model.         *)
(* The RNG state is the exact 32-bit word, kept as two 16-bit halves.      *)
(*                                                                         *)
(* The canvas (GAME_WIDTH x GAME_HEIGHT, read from the page) is 140 x 60   *)
(* in the grid game and 140 x 200 in the barrier game; the variable        *)
(* `canvasHeight` holds the height, and SpecLow plays the grid game on a   *)
(* canvas 48 high as well.                                                 *)
(***************************************************************************)
EXTENDS Integers, Sequences, FiniteSets, TLC

VARIABLES
  variant,                \* "grid" (first Game class) or "barrier" (second)
  canvasHeight,           \* canvas.height of the page
  rng,                    \* RNG.state: <<high 16 bits, low 16 bits>>
  blocks,                 \* Game.blocks
  barrierBlocks,          \* Game.barrierBlocks (barrier game only)
  balls,                  \* Game.balls
  pendingBalls,           \* Game.pendingBalls
  ballChain,              \* Game.ballChain
  baseBallPosition,       \* Game.baseBallPosition
  turnAngle,              \* Game.turnAngle (NullF or radians)
  isAiming, isLaunching, isGameOver,
  turn, score,
  launchTimer,            \* Game.launchTimer
  activeBallChainLanding, \* Game.activeBallChainLanding (NullF or position)
  restingBalls,           \* Game.restingBalls, as the number of its entries
  previousTime,           \* Game.previousTime: 0 while falsy, 1 once set
  chainAtLaunch,          \* history: ballChain when launchTurn last ran
  sinceSpawn,             \* history: exact sum of the deltas since the last
                          \* ball spawn, while balls are pending
  sinceLaunch,            \* history: the score when launchTurn last ran and
                          \* the hits counted since
  restarts,               \* history: number of reset() calls after construction
  launches,               \* history: number of launchTurn() calls
  calls,                  \* history: number of direct method calls
  rowLoop,                \* the call of spawnRow: whether it is running, and
                          \* its local variables blockCount and taken
  obs                     \* history: what the last operation did

\* the fields of the Game object and its RNG
gameVars == <<rng, blocks, barrierBlocks, balls, pendingBalls, ballChain,
              baseBallPosition, turnAngle, isAiming, isLaunching, isGameOver,
              turn, score, launchTimer, activeBallChainLanding, restingBalls>>

vars == <<variant, canvasHeight, rng, blocks, barrierBlocks, balls, pendingBalls, ballChain,
          baseBallPosition, turnAngle, isAiming, isLaunching, isGameOver,
          turn, score, launchTimer, activeBallChainLanding, restingBalls,
          previousTime,
          chainAtLaunch, sinceSpawn, sinceLaunch, restarts, launches, calls,
          rowLoop, obs>>

-----------------------------------------------------------------------------
(* Bounds of the model *)

\* launchTurn() is explored at most this many times per behaviour
MaxLaunches == 2
\* reset() is explored at most this many times per behaviour
MaxRestarts == 1
\* finishTurn() is called directly at most this many times per behaviour
MaxCalls == 1
\* launchTurn() is explored at most this many times in a long game
MaxLongLaunches == 30
\* the methods of a new game are called directly at most this many times
MaxRngCalls == 3
\* launchTurn() is explored at most this many times in a game along the walls
MaxWallLaunches == 4

\* turns launched in the games aimed at every pointer position
MaxAimLaunches == 1
\* Ball.update is called directly at most this many times on a ball
MaxUpdateCalls == 2
\* reset() is entered at most this many times in the games that follow the
\* loop of spawnRow
MaxRowCalls == 3

-----------------------------------------------------------------------------
(* Program constants *)

NULL == 0 - 10 ^ 9                 \* null / undefined where integers are held
NullF == <<0, 1, 0, 0>>            \* null / undefined where float64 are held

GAME_WIDTH == 140                  \* canvas.width
GAME_HEIGHT == canvasHeight        \* canvas.height
GRID_COLUMNS == 7
GRID_SIZE == GAME_WIDTH \div GRID_COLUMNS             \* 140 / 7 is exact
BALL_RADIUS == 7
MAX_FLOATING_BLOCKS == 24
baseY == GAME_HEIGHT - 24          \* Game.baseY

\* canvas.height of the page of each Game definition
PageHeight == IF variant = "grid" THEN 60 ELSE 200
\* canvas.height of a low page, on which a ball launched under an entity of
\* the top row is back at the launcher before the next ball of the chain
LowPageHeight == 48

\* Math.min and Math.max of integers
Min(a, b) == IF a < b THEN a ELSE b
Max(a, b) == IF a > b THEN a ELSE b

\* Throughout,  CHOOSE it \in {F(v) : v \in {e}} : TRUE  is F(e), the member
\* of a one-element set, with e evaluated once.

-----------------------------------------------------------------------------
(* float64 arithmetic *)

\* Every operator here that reads an argument more than once binds it first,
\* as in  CHOOSE it \in {F(a) : a \in {x}} : TRUE,  so that an expression
\* passed as the argument is evaluated once.

\* 2^k
Pow2(k) == 2 ^ k

\* the number 0
FZero == <<0, 0, 0, 0>>

\* the number of binary digits of 0 <= n < 2^30
Bits(n) == CHOOSE k \in 0..30 : n < Pow2(k) /\ (k = 0 \/ Pow2(k - 1) <= n)

\* hi * 2^26 + lo shifted right by k places: <<hi, lo, whether a 1 was shifted out>>
ShrPair(hi, lo, k) ==
  IF k <= 26
  THEN <<hi \div Pow2(k), lo \div Pow2(k) + (hi % Pow2(k)) * Pow2(26 - k),
         lo % Pow2(k) # 0>>
  ELSE IF k <= 53
  THEN <<0, hi \div Pow2(k - 26), hi % Pow2(k - 26) # 0 \/ lo # 0>>
  ELSE <<0, 0, hi # 0 \/ lo # 0>>

\* hi * 2^26 + lo shifted left by n places, the result below 2^53
ShlPair(hi, lo, n) ==
  IF n <= 26
  THEN <<hi * Pow2(n) + lo \div Pow2(26 - n), (lo % Pow2(26 - n)) * Pow2(n)>>
  ELSE <<lo * Pow2(n - 26), 0>>

\* the float64 s * (hi * 2^26 + lo) * 2^e of a significand below 2^53
Exact(s, e, hi, lo) ==
  IF (hi = 0 /\ lo = 0) \/ s = 0 THEN FZero
  ELSE <<s, e - (53 - (IF hi > 0 THEN 26 + Bits(hi) ELSE Bits(lo)))>>
       \o ShlPair(hi, lo, 53 - (IF hi > 0 THEN 26 + Bits(hi) ELSE Bits(lo)))

\* the float64 of the significand hi * 2^26 + lo, one unit in the last place
\* further from zero if up
RoundUp(s, e, hi, lo, up) ==
  IF ~up THEN <<s, e, hi, lo>>
  ELSE IF lo + 1 < Pow2(26) THEN <<s, e, hi, lo + 1>>
  ELSE IF hi + 1 < Pow2(27) THEN <<s, e, hi + 1, 0>>
  ELSE <<s, e + 1, Pow2(26), 0>>

\* round to nearest, ties to even: rb is the first digit cut off, sticky says
\* that a later digit is 1
Nearest(s, e, hi, lo, rb, sticky) ==
  RoundUp(s, e, hi, lo, rb = 1 /\ (sticky \/ lo % 2 = 1))

\* -a
FNeg(x) == (CHOOSE it \in {<<0 - a[1], a[2], a[3], a[4]>> : a \in {x}} : TRUE)

\* the float64 of an integer
FOfInt(n) ==
  IF n < 0 THEN Exact(0 - 1, 0, (0 - n) \div Pow2(26), (0 - n) % Pow2(26))
  ELSE Exact(1, 0, n \div Pow2(26), n % Pow2(26))

\* the order of |a| and |b|: -1, 0 or 1
FCmpAbs(a, b) ==
  IF a[1] = 0 THEN (IF b[1] = 0 THEN 0 ELSE 0 - 1)
  ELSE IF b[1] = 0 THEN 1
  ELSE IF a[2] # b[2] THEN (IF a[2] < b[2] THEN 0 - 1 ELSE 1)
  ELSE IF a[3] # b[3] THEN (IF a[3] < b[3] THEN 0 - 1 ELSE 1)
  ELSE IF a[4] # b[4] THEN (IF a[4] < b[4] THEN 0 - 1 ELSE 1)
  ELSE 0

\* the order of a and b: -1, 0 or 1
FCmp(x, y) ==
  (CHOOSE it \in {IF a[1] # b[1] THEN (IF a[1] < b[1] THEN 0 - 1 ELSE 1)
        ELSE a[1] * FCmpAbs(a, b) : <<a, b>> \in {<<x, y>>}} : TRUE)

\* a < b
FLess(a, b) == FCmp(a, b) < 0
\* a <= b
FLeq(a, b) == FCmp(a, b) <= 0

\* the product of two significands given in 13-bit digits (a0, b0 lowest):
\* <<digits 78 and up, digits 52..77, digits 39..51, whether a lower digit is 1>>
MulLimbs(a0, a1, a2, a3, b0, b1, b2, b3) ==
  LET c0 == a0 * b0
      c1 == a0 * b1 + a1 * b0 + c0 \div Pow2(13)
      c2 == a0 * b2 + a1 * b1 + a2 * b0 + c1 \div Pow2(13)
      c3 == a0 * b3 + a1 * b2 + a2 * b1 + a3 * b0 + c2 \div Pow2(13)
      c4 == a1 * b3 + a2 * b2 + a3 * b1 + c3 \div Pow2(13)
      c5 == a2 * b3 + a3 * b2 + c4 \div Pow2(13)
      c6 == a3 * b3 + c5 \div Pow2(13)
  IN  <<c6, (c4 % Pow2(13)) + (c5 % Pow2(13)) * Pow2(13), c3 % Pow2(13),
        c0 % Pow2(13) # 0 \/ c1 % Pow2(13) # 0 \/ c2 % Pow2(13) # 0>>

\* the product p of MulLimbs rounded to 53 digits
MulRound(s, e, p) ==
  IF p[1] >= Pow2(27)
  THEN Nearest(s, e + 53, p[1] \div 2, p[2] \div 2 + (p[1] % 2) * Pow2(25),
               p[2] % 2, p[3] # 0 \/ p[4])
  ELSE Nearest(s, e + 52, p[1], p[2], p[3] \div Pow2(12), p[3] % Pow2(12) # 0 \/ p[4])

\* a * b
FMul(x, y) ==
  (CHOOSE it \in {IF a[1] = 0 \/ b[1] = 0 THEN FZero
        ELSE (CHOOSE it \in {MulRound(a[1] * b[1], a[2] + b[2], p) :
                     p \in {MulLimbs(a[4] % Pow2(13), a[4] \div Pow2(13),
                                     a[3] % Pow2(13), a[3] \div Pow2(13),
                                     b[4] % Pow2(13), b[4] \div Pow2(13),
                                     b[3] % Pow2(13), b[3] \div Pow2(13))}} : TRUE) :
          <<a, b>> \in {<<x, y>>}} : TRUE)

\* a shifted significand with its three guard digits: <<hi, lo, guard>>
Guarded(w, st) ==
  <<w[1] \div 8, w[2] \div 8 + (w[1] % 8) * (Pow2(26) \div 8),
    IF st /\ w[2] % 2 = 0 THEN (w[2] % 8) + 1 ELSE w[2] % 8>>

\* the smaller operand of a sum, shifted right by the difference d of the
\* exponents, with three guard digits (the last one sticky)
ShiftB(hi, lo, d) ==
  IF d <= 3
  THEN <<ShrPair(hi, lo, d)[1], ShrPair(hi, lo, d)[2], (lo * Pow2(3 - d)) % 8>>
  ELSE Guarded(ShrPair(hi, lo, d - 3), ShrPair(hi, lo, d - 3)[3])

\* a sum of significands and guard digits g rounded to 53 digits
NormAdd(s, e, hi, lo, g) ==
  IF hi >= Pow2(27)
  THEN Nearest(s, e + 1, hi \div 2, lo \div 2 + (hi % 2) * Pow2(25), lo % 2, g # 0)
  ELSE Nearest(s, e, hi, lo, g \div 4, g % 4 # 0)

\* a difference of significands and guard digits g rounded to 53 digits
NormSub(s, e, hi, lo, g) ==
  IF hi >= Pow2(26) THEN Nearest(s, e, hi, lo, g \div 4, g % 4 # 0)
  ELSE IF hi >= Pow2(25)
  THEN Nearest(s, e - 1, 2 * hi + (2 * lo + g \div 4) \div Pow2(26),
               (2 * lo + g \div 4) % Pow2(26), (g \div 2) % 2, g % 2 # 0)
  ELSE Exact(s, e - 1, 2 * hi + (2 * lo + g \div 4) \div Pow2(26),
             (2 * lo + g \div 4) % Pow2(26))

\* a + b for the same signs, b shifted to sb
AddSame(a, sb) ==
  NormAdd(a[1], a[2], a[3] + sb[1] + (a[4] + sb[2]) \div Pow2(26),
          (a[4] + sb[2]) % Pow2(26), sb[3])

\* a + b for opposite signs and |a| > |b|, b shifted to sb
SubBorrow(a, sb, low) ==
  NormSub(a[1], a[2], a[3] - sb[1] - (IF low < 0 THEN 1 ELSE 0), low % Pow2(26),
          (8 - sb[3]) % 8)

\* a + b for |a| >= |b| > 0
AddOrdered(a, b) ==
  IF a[2] - b[2] >= 55 THEN a
  ELSE IF a[1] # b[1] /\ a[2] = b[2] /\ a[3] = b[3] /\ a[4] = b[4] THEN FZero
  ELSE (CHOOSE it \in {IF a[1] = b[1] THEN AddSame(a, sb)
             ELSE SubBorrow(a, sb, a[4] - sb[2] - (IF sb[3] > 0 THEN 1 ELSE 0)) :
               sb \in {ShiftB(b[3], b[4], a[2] - b[2])}} : TRUE)

\* a + b
FAdd(x, y) ==
  (CHOOSE it \in {IF a[1] = 0 THEN b
        ELSE IF b[1] = 0 THEN a
        ELSE IF FCmpAbs(a, b) >= 0 THEN AddOrdered(a, b)
        ELSE AddOrdered(b, a) : <<a, b>> \in {<<x, y>>}} : TRUE)

\* a - b
FSub(a, b) == FAdd(a, FNeg(b))

\* k digits in base 2^13 of the fraction r / d, and the remainder
RECURSIVE Digits(_, _, _)
Digits(r, d, k) ==
  IF k = 0 THEN <<r>>
  ELSE <<(r * Pow2(13)) \div d>> \o Digits((r * Pow2(13)) % d, d, k - 1)

\* the float64 nearest to the number with the base-2^13 digits L[i], L[i+1], ...,
\* L[i] having k + 1 binary digits and the weight 2^w
FromLimbs(s, w, k, A, B, L, i, rest) ==
  Nearest(s, w + k - 52,
          L[i] * Pow2(26 - k) + A \div Pow2(k),
          (A % Pow2(k)) * Pow2(26 - k) + B \div Pow2(k),
          ((B % Pow2(k)) * Pow2(13) + L[i + 5]) \div Pow2(k + 12),
          ((B % Pow2(k)) * Pow2(13) + L[i + 5]) % Pow2(k + 12) # 0 \/ rest)
\* the float64 of the digits L = <<q1, q0, f1, ..., f6, remainder>> of a
\* quotient (q1 of weight 2^13), from its first nonzero digit L[i]
Window(s, L, i) ==
  FromLimbs(s, 13 * (2 - i), Bits(L[i]) - 1,
            L[i + 1] * Pow2(13) + L[i + 2], L[i + 3] * Pow2(13) + L[i + 4], L, i,
            L[9] # 0 \/ (i < 3 /\ L[8] # 0) \/ (i < 2 /\ L[7] # 0))

\* the float64 nearest to s * n / d for n > 0
Quotient(s, n, d) ==
  (CHOOSE it \in {Window(s, L, IF n \div d >= Pow2(13) THEN 1 ELSE IF n \div d > 0 THEN 2 ELSE 3) :
          L \in {<<(n \div d) \div Pow2(13), (n \div d) % Pow2(13)>>
                 \o Digits(n % d, d, 6)}} : TRUE)

\* the float64 nearest to n / d for integers |n| < d * 2^26 and 0 < d < 2^13:
\* the value of a decimal literal and of an exact quotient
FRatio(n, d) ==
  IF n = 0 THEN FZero ELSE IF n < 0 THEN Quotient(0 - 1, 0 - n, d) ELSE Quotient(1, n, d)

\* Math.floor(a), for |a| < 2^31
FFloor(x) ==
  (CHOOSE it \in {IF a[1] = 0 THEN 0
        ELSE (CHOOSE it \in {IF a[1] > 0 THEN w[1] * Pow2(26) + w[2]
                   ELSE 0 - (w[1] * Pow2(26) + w[2] + (IF w[3] THEN 1 ELSE 0)) :
                     w \in {ShrPair(a[3], a[4], 0 - a[2])}} : TRUE) : a \in {x}} : TRUE)

\* 0.5
Half == <<1, 0 - 53, 2 ^ 26, 0>>

\* Math.round(a): the integer nearest to a, halves going up
FRound(x) ==
  (CHOOSE it \in {n[2] + (IF FLeq(Half, FSub(n[1], FOfInt(n[2]))) THEN 1 ELSE 0) :
          n \in {<<a, FFloor(a)>> : a \in {x}}} : TRUE)

\* Math.min(a, b)
FMin(x, y) == (CHOOSE it \in {IF FLess(b, a) THEN b ELSE a : <<a, b>> \in {<<x, y>>}} : TRUE)
\* Math.max(a, b)
FMax(x, y) == (CHOOSE it \in {IF FLess(a, b) THEN b ELSE a : <<a, b>> \in {<<x, y>>}} : TRUE)

\* the i-th 16-bit word of the binary expansion of s / 0xffffffff, which
\* repeats the 32 bits of s:  s / (2^32 - 1) = s / 2^32 + s / 2^64 + ...
Word(s, i) == IF i % 2 = 0 THEN s[1] ELSE s[2]

\* the w <= 14 binary digits of that expansion from position o
Chunk(s, o, w) ==
  IF w <= 16 - (o % 16)
  THEN (Word(s, o \div 16) % Pow2(16 - (o % 16))) \div Pow2(16 - (o % 16) - w)
  ELSE (Word(s, o \div 16) % Pow2(16 - (o % 16))) * Pow2(w - (16 - (o % 16)))
       + Word(s, o \div 16 + 1) \div Pow2(32 - (o % 16) - w)

\* the expansion rounded to 53 digits, from its first 1 at position z; the
\* digits cut off are never all 0
Periodic(s, z) ==
  Nearest(1, 0 - z - 53,
          Chunk(s, z, 14) * Pow2(13) + Chunk(s, z + 14, 13),
          Chunk(s, z + 27, 13) * Pow2(13) + Chunk(s, z + 40, 13),
          Chunk(s, z + 53, 1), TRUE)

\* the value that RNG.next() returns in state s: s / 0xffffffff
next(state) ==
  (CHOOSE it \in {IF s = <<0, 0>> THEN FZero
        ELSE IF s = <<65535, 65535>> THEN FOfInt(1)
        ELSE (CHOOSE it \in {Periodic(s, z) :
                     z \in {IF s[1] > 0 THEN 16 - Bits(s[1]) ELSE 32 - Bits(s[2])}} : TRUE) :
          s \in {state}} : TRUE)

\* Exact sums of float64 numbers (history only): a tally is the number
\* t[1] * 2^-26 + t[2] * 2^-52 + t[3] * 2^-78.
\* The tally of a float64 0 <= a < 1 with a = 0 or a >= 2^-26
TallyOf(x) ==
  (CHOOSE it \in {IF a[1] = 0 THEN <<0, 0, 0>>
        ELSE <<a[3] \div Pow2(0 - 52 - a[2]),
               (a[3] % Pow2(0 - 52 - a[2])) * Pow2(a[2] + 78)
                 + a[4] \div Pow2(0 - 52 - a[2]),
               (a[4] % Pow2(0 - 52 - a[2])) * Pow2(a[2] + 78)>> : a \in {x}} : TRUE)

\* t + u
TallyAdd(x, y) ==
  (CHOOSE it \in {<<t[1] + u[1] + (t[2] + u[2] + (t[3] + u[3]) \div Pow2(26)) \div Pow2(26),
          (t[2] + u[2] + (t[3] + u[3]) \div Pow2(26)) % Pow2(26),
          (t[3] + u[3]) % Pow2(26)>> : <<t, u>> \in {<<x, y>>}} : TRUE)

\* t * n for a small integer n
TallyTimes(x, n) ==
  (CHOOSE it \in {<<t[1] * n + (t[2] * n + (t[3] * n) \div Pow2(26)) \div Pow2(26),
          (t[2] * n + (t[3] * n) \div Pow2(26)) % Pow2(26),
          (t[3] * n) % Pow2(26)>> : t \in {x}} : TRUE)

\* a / 2
Halve(x) ==
  (CHOOSE it \in {IF a[1] = 0 THEN a ELSE <<a[1], a[2] - 1, a[3], a[4]>> : a \in {x}} : TRUE)

\* const clamp = (value, min, max) => Math.max(min, Math.min(max, value))
clamp(value, lo, hi) == FMax(lo, FMin(hi, value))

\* BALL_SPEED: 6.2 in the grid game, 620 in the barrier game
BALL_SPEED == IF variant = "grid" THEN FRatio(62, 10) ELSE FOfInt(620)

-----------------------------------------------------------------------------
(* RNG: xorshift32 on a 32-bit word <<hi, lo>>, hi and lo in 0..65535 *)

\* bitwise exclusive or of two 4-bit numbers
Xor4 ==
  [a \in 0..15, b \in 0..15 |->
     ((a + b) % 2)
     + 2 * (((a \div 2) + (b \div 2)) % 2)
     + 4 * (((a \div 4) + (b \div 4)) % 2)
     + 8 * (((a \div 8) + (b \div 8)) % 2)]

\* bitwise exclusive or of two 16-bit numbers
Xor16(a, b) ==
  Xor4[a % 16, b % 16]
  + 16 * Xor4[(a \div 16) % 16, (b \div 16) % 16]
  + 256 * Xor4[(a \div 256) % 16, (b \div 256) % 16]
  + 4096 * Xor4[a \div 4096, b \div 4096]

Xor32(x, y) == <<Xor16(x[1], y[1]), Xor16(x[2], y[2])>>

\* (x << 13) truncated to 32 bits
Shl13(x) == <<(x[1] % 8) * 8192 + (x[2] \div 8), (x[2] % 8) * 8192>>
\* x >>> 17
Shr17(x) == <<0, x[1] \div 2>>
\* (x << 5) truncated to 32 bits
Shl5(x) == <<(x[1] % 2048) * 32 + (x[2] \div 2048), (x[2] % 2048) * 32>>

\* x ^= x << 13;  x ^= x >>> 17;  x ^= x << 5
XorShl13(x) == Xor32(x, Shl13(x))
XorShr17(x) == Xor32(x, Shr17(x))
XorShl5(x) == Xor32(x, Shl5(x))

\* the state after one call of RNG.next()
RngStep(x) ==
  (CHOOSE it \in {XorShl5(c) : c \in {XorShr17(b) : b \in {XorShl13(a) : a \in {x}}}} : TRUE)

\* Math.floor(next() * n) for the value next() returned in state s
FloorMul(s, n) == FFloor(FMul(next(s), FOfInt(n)))

\* next() > 0.65 for the value returned in state s
Above065(s) == FLess(FRatio(65, 100), next(s))

-----------------------------------------------------------------------------
(* Helpers *)

\* Array.prototype.filter keeping the entities that are not destroyed
NotDestroyed(s) == SelectSeq(s, LAMBDA e : ~e.destroyed)

-----------------------------------------------------------------------------
(* Entities *)

\* Math.PI
PI == <<1, 0 - 51, 105414357, 4467992>>

\* Math.cos(angle) and Math.sin(angle) for the aim angles of the model:
\*   -2.791592653589793: -0.9393727128473789, -0.34289780745545156
\*   -2.498091544796509: -0.8, -0.6
\*   -2.214297435588181: -0.5999999999999999, -0.8000000000000002
\*   -1.5707963267948966: 6.123233995736766e-17, -1.0
\*   -0.9272952180016122: 0.6000000000000001, -0.7999999999999999
\*   -0.6435011087932844: 0.8, -0.6
\*   -0.35: 0.9393727128473789, -0.34289780745545134
\*   -0.24497866312686414: 0.9701425001453319, -0.24253562503633297
\*   0.0: 1.0, 0.0
\*   0.24497866312686414: 0.9701425001453319, 0.24253562503633297
\*   0.35: 0.9393727128473789, 0.34289780745545134
CosSin(angle) ==
  CASE angle = <<0 - 1, 0 - 51, 93670305, 58155083>>
       -> <<<<0 - 1, 0 - 53, 126080471, 17687991>>,
            <<0 - 1, 0 - 54, 92045929, 20515471>>>>
    [] angle = <<0 - 1, 0 - 51, 83822042, 58361184>>
       -> <<<<0 - 1, 0 - 53, 107374182, 26843546>>,
            <<0 - 1, 0 - 53, 80530636, 53687091>>>>
    [] angle = <<0 - 1, 0 - 51, 74299492, 49004100>>
       -> <<<<0 - 1, 0 - 53, 80530636, 53687090>>,
            <<0 - 1, 0 - 53, 107374182, 26843547>>>>
    [] angle = <<0 - 1, 0 - 52, 105414357, 4467992>>
       -> <<<<1, 0 - 106, 74025356, 51665927>>,
            <<0 - 1, 0 - 52, 67108864, 0>>>>
    [] angle = <<0 - 1, 0 - 53, 124459457, 23182159>>
       -> <<<<1, 0 - 53, 80530636, 53687092>>,
            <<0 - 1, 0 - 53, 107374182, 26843545>>>>
    [] angle = <<0 - 1, 0 - 53, 86369256, 52862689>>
       -> <<<<1, 0 - 53, 107374182, 26843546>>,
            <<0 - 1, 0 - 53, 80530636, 53687091>>>>
    [] angle = <<0 - 1, 0 - 54, 93952409, 40265318>>
       -> <<<<1, 0 - 53, 126080471, 17687991>>,
            <<0 - 1, 0 - 54, 92045929, 20515467>>>>
    [] angle = <<0 - 1, 0 - 55, 131521918, 19693789>>
       -> <<<<1, 0 - 53, 130210322, 13807388>>,
            <<0 - 1, 0 - 55, 130210322, 13807388>>>>
    [] angle = <<0, 0, 0, 0>>
       -> <<<<1, 0 - 52, 67108864, 0>>,
            <<0, 0, 0, 0>>>>
    [] angle = <<1, 0 - 55, 131521918, 19693789>>
       -> <<<<1, 0 - 53, 130210322, 13807388>>,
            <<1, 0 - 55, 130210322, 13807388>>>>
    [] angle = <<1, 0 - 54, 93952409, 40265318>>
       -> <<<<1, 0 - 53, 126080471, 17687991>>,
            <<1, 0 - 54, 92045929, 20515467>>>>
\* new Block(col, row, strength, type); created and hits are history: the
\* strength it was created with and the hits it has taken
Block(col, row, strength, type) ==
  [col |-> col, row |-> row, strength |-> strength, type |-> type,
   destroyed |-> FALSE, created |-> strength, hits |-> 0]

\* Block.rect: col * GRID_SIZE + 6, row * GRID_SIZE + 6, GRID_SIZE - 12
BlockRect(b) ==
  [x |-> FOfInt(b.col * GRID_SIZE + 6), y |-> FOfInt(b.row * GRID_SIZE + 6),
   w |-> FOfInt(GRID_SIZE - 12), h |-> FOfInt(GRID_SIZE - 12)]

\* new BarrierBlock(x, y, size, strength); created and hits are history
BarrierBlock(x, y, size, strength) ==
  [x |-> x, y |-> y, size |-> size, strength |-> strength, destroyed |-> FALSE,
   created |-> strength, hits |-> 0]

\* BarrierBlock.rect
BarrierRect(b) ==
  [x |-> FSub(b.x, Halve(b.size)), y |-> FSub(b.y, Halve(b.size)),
   w |-> b.size, h |-> b.size]

\* new Ball(x, y, angle).  The second definition sets prevX and prevY; for
\* the first they are history: the position before the last update.
Ball(x, y, angle) ==
  [x |-> x, y |-> y,
   vx |-> FMul(CosSin(angle)[1], BALL_SPEED),
   vy |-> FMul(CosSin(angle)[2], BALL_SPEED),
   resting |-> FALSE, prevX |-> x, prevY |-> y]

\* a variant of Ball.update that reflects at the side walls without moving
\* the ball back to the wall
BallUpdateNoSnap(ball, delta) ==
  (CHOOSE it \in {IF b.resting THEN b
        ELSE
          (CHOOSE it \in {LET x1 == moved[1]
                    y1 == moved[2]
                    hitLeft == /\ FLeq(FSub(x1, FOfInt(BALL_RADIUS)), FZero)
                               /\ FLess(b.vx, FZero)
                    hitRight == /\ FLeq(FOfInt(GAME_WIDTH), FAdd(x1, FOfInt(BALL_RADIUS)))
                                /\ FLess(FZero, b.vx)
                    hitTop == /\ FLeq(FSub(y1, FOfInt(BALL_RADIUS)), FZero)
                              /\ FLess(b.vy, FZero)
                IN  [b EXCEPT !.prevX = b.x, !.prevY = b.y,
                              !.x = x1,
                              !.vx = IF hitLeft \/ hitRight THEN FNeg(b.vx) ELSE b.vx,
                              !.y = IF hitTop THEN FOfInt(BALL_RADIUS) ELSE y1,
                              !.vy = IF hitTop THEN FNeg(b.vy) ELSE b.vy] :
                  moved \in {<<FAdd(b.x, FMul(b.vx, delta)),
                               FAdd(b.y, FMul(b.vy, delta))>>}} : TRUE) :
          b \in {ball}} : TRUE)

\* Ball.update(delta)
BallUpdate(ball, delta) ==
  (CHOOSE it \in {IF b.resting THEN b
        ELSE
          (CHOOSE it \in {LET x1 == moved[1]
                    y1 == moved[2]
                    hitLeft == /\ FLeq(FSub(x1, FOfInt(BALL_RADIUS)), FZero)
                               /\ FLess(b.vx, FZero)
                    hitRight == /\ FLeq(FOfInt(GAME_WIDTH), FAdd(x1, FOfInt(BALL_RADIUS)))
                                /\ FLess(FZero, b.vx)
                    hitTop == /\ FLeq(FSub(y1, FOfInt(BALL_RADIUS)), FZero)
                              /\ FLess(b.vy, FZero)
                IN  [b EXCEPT !.prevX = b.x, !.prevY = b.y,
                              !.x = IF hitLeft THEN FOfInt(BALL_RADIUS)
                              ELSE IF hitRight THEN FOfInt(GAME_WIDTH - BALL_RADIUS)
                              ELSE x1,
                              !.vx = IF hitLeft \/ hitRight THEN FNeg(b.vx) ELSE b.vx,
                              !.y = IF hitTop THEN FOfInt(BALL_RADIUS) ELSE y1,
                              !.vy = IF hitTop THEN FNeg(b.vy) ELSE b.vy] :
                  moved \in {<<FAdd(b.x, FMul(b.vx, delta)),
                               FAdd(b.y, FMul(b.vy, delta))>>}} : TRUE) :
          b \in {ball}} : TRUE)

\* a variant of setResting that stops the fall and leaves the ball sliding
SetRestingSliding(b) ==
  [b EXCEPT !.y = FOfInt(baseY - BALL_RADIUS), !.vy = FZero, !.resting = TRUE]

\* Ball.setResting(baseY)
SetResting(b) ==
  [b EXCEPT !.y = FOfInt(baseY - BALL_RADIUS), !.vx = FZero, !.vy = FZero,
            !.resting = TRUE]

\* dx * dx + dy * dy < BALL_RADIUS * BALL_RADIUS
Within(x, y) ==
  (CHOOSE it \in {FLess(FAdd(FMul(dx, dx), FMul(dy, dy)),
              FMul(FOfInt(BALL_RADIUS), FOfInt(BALL_RADIUS))) :
          <<dx, dy>> \in {<<x, y>>}} : TRUE)

\* a variant of circleRectCollision that measures from the centre of the
\* rectangle instead of its closest point
circleRectCollisionCentre(ball, rect) ==
  (CHOOSE it \in {Within(FSub(b.x, FAdd(r.x, Halve(r.w))),
               FSub(b.y, FAdd(r.y, Halve(r.h)))) : <<b, r>> \in {<<ball, rect>>}} : TRUE)

\* Game.circleRectCollision(ball, rect)
circleRectCollision(ball, rect) ==
  (CHOOSE it \in {Within(FSub(b.x, clamp(b.x, r.x, FAdd(r.x, r.w))),
               FSub(b.y, clamp(b.y, r.y, FAdd(r.y, r.h)))) :
          <<b, r>> \in {<<ball, rect>>}} : TRUE)

-----------------------------------------------------------------------------
(* Spawn planner.  A game is a record g of the fields of the Game object. *)

\* Math.max(1, Math.round(turn * (0.5 + next()))) for next() returned in state s
BlockStrength(t, s) ==
  Max(1, FRound(FMul(FOfInt(t), FAdd(FRatio(5, 10), next(s)))))

\* Math.max(2, Math.round(strengthBase * (0.6 + next())))
BarrierStrength(strengthBase, s) ==
  Max(2, FRound(FMul(FOfInt(strengthBase), FAdd(FRatio(6, 10), next(s)))))

RECURSIVE SpawnRowLoop(_, _, _, _, _)
\* the while loop of spawnRow: <<RNG state, taken columns, blocks>> at its exit
SpawnRowLoop(s, taken, blockCount, blks, t) ==
  IF blockCount <= 0 THEN <<s, taken, blks>>
  ELSE
    LET s1 == RngStep(s)
        col == FloorMul(s1, GRID_COLUMNS)
        s2 == RngStep(s1)
    IN  (CHOOSE it \in {SpawnRowLoop(n[1], n[2], n[3], n[4], t) :
                n \in {IF col \in taken THEN <<s1, taken, blockCount, blks>>
                       ELSE <<s2, taken \cup {col}, blockCount - 1,
                              Append(blks, Block(col, 0, BlockStrength(t, s2),
                                                 "block"))>>}} : TRUE)

\* the members of the set S of columns in ascending order
Ascending(S) ==
  [k \in 1..Cardinality(S) |->
     CHOOSE c \in S : Cardinality({d \in S : d < c}) = k - 1]

\* randomChoice(arr, rng) for next() returned in state s; arr[arr.length] is
\* undefined
randomChoice(arr, s) ==
  LET i == FloorMul(s, Len(arr))
  IN  IF i < Len(arr) THEN arr[i + 1] ELSE NULL

\* the end of spawnRow, after the while loop has left
\* loop = <<RNG state, taken columns, blocks>>: on next() > 0.65 a pickup in
\* a free column; s1 and s2 are the RNG states of the two draws
\* g.rows logs the calls of spawnRow: the blocks before and after (history)
SpawnPickup(g, loop, s1, s2) ==
  LET freeCols == Ascending((0..(GRID_COLUMNS - 1)) \ loop[2])
      after == IF Above065(s1) /\ Len(freeCols) > 0
               THEN Append(loop[3],
                           Block(randomChoice(freeCols, s2), 0, 1, "pickup"))
               ELSE loop[3]
  IN  [g EXCEPT !.rng = IF Above065(s1) /\ Len(freeCols) > 0 THEN s2 ELSE s1,
                !.blocks = after,
                !.rows = Append(@, [before |-> g.blocks, after |-> after])]

\* maxBlocks of spawnRow: Math.max(3, Math.floor(GRID_COLUMNS * 0.85))
MaxBlocks == Max(3, FFloor(FMul(FOfInt(GRID_COLUMNS), FRatio(85, 100))))

\* the block count of spawnRow for next() returned in state s0
RowBlockCount(s0) ==
  FloorMul(s0, MaxBlocks - Min(3, GRID_COLUMNS) + 1) + Min(3, GRID_COLUMNS)

\* the block count of spawnRow for next() returned in state s0, and the loop
SpawnBlocks(g, s0) == SpawnRowLoop(s0, {}, RowBlockCount(s0), g.blocks, g.turn)

\* SpawnPickup for the loop result, drawing from its RNG state
SpawnPickupAfter(g, loop) ==
  SpawnPickup(g, loop, RngStep(loop[1]), RngStep(RngStep(loop[1])))

\* Game.spawnRow()
spawnRow(g) ==
  (CHOOSE it \in {SpawnPickupAfter(g, loop) : loop \in {SpawnBlocks(g, RngStep(g.rng))}} : TRUE)

\* Game.isBarrierOverlapping(candidate)
isBarrierOverlapping(barriers, candidate) ==
  \E minGap \in {FAdd(candidate.size, FOfInt(24))} :
    \E minGapSq \in {FMul(minGap, minGap)} :
      \E i \in 1..Len(barriers) :
        \E dx \in {FSub(barriers[i].x, candidate.x)},
           dy \in {FSub(barriers[i].y, candidate.y)} :
          \E dxSq \in {FMul(dx, dx)}, dySq \in {FMul(dy, dy)} :
            FLess(FAdd(dxSq, dySq), minGapSq)

\* size of spawnFloatingBlock: GRID_SIZE * 0.9
BarrierSize == FMul(FOfInt(GRID_SIZE), FRatio(9, 10))

\* padding of spawnFloatingBlock: size / 2 + 12
Padding == FAdd(Halve(BarrierSize), FOfInt(12))

\* the candidate of createCandidate for the RNG states s1, s2, s3 of its
\* three draws: <<RNG state, candidate>>
Candidate(s1, s2, s3, t) ==
  LET maxY == FMul(FOfInt(GAME_HEIGHT), FRatio(6, 10))
      x == FAdd(Padding,
                FMul(next(s1), FSub(FOfInt(GAME_WIDTH), FMul(Padding, FOfInt(2)))))
      y == FAdd(FAdd(Padding, FMul(next(s2), FSub(maxY, Padding))), FOfInt(32))
  IN  <<s3, BarrierBlock(x, y, BarrierSize, BarrierStrength(t + 2, s3))>>

\* createCandidate of spawnFloatingBlock in RNG state s, for turn t
createCandidate(s, t) ==
  Candidate(RngStep(s), RngStep(RngStep(s)), RngStep(RngStep(RngStep(s))), t)

RECURSIVE CandidateLoop(_, _, _, _)
\* the retry loop of spawnFloatingBlock: at most `attempts` new candidates.
\* A candidate that does not overlap ends the loop, so the attempts left can
\* be made in two runs, the second one starting where the first one ended
CandidateLoop(c, barriers, t, attempts) ==
  CASE attempts = 0 \/ ~isBarrierOverlapping(barriers, c[2]) -> c
    [] attempts = 1 -> createCandidate(c[1], t)
    [] OTHER ->
         CHOOSE it \in {CandidateLoop(c1, barriers, t, attempts - attempts \div 2) :
                         c1 \in {CandidateLoop(c, barriers, t, attempts \div 2)}} :
           TRUE

\* one entry of the log g.spawns of the calls of spawnFloatingBlock (history)
Spawn(force, before, after, candidate) ==
  [force |-> force, before |-> before, after |-> after, candidate |-> candidate]

\* a variant of PushCandidate that pushes a forced candidate without making
\* room for it
PushCandidateNoShift(g, c, force) ==
  LET full == Len(g.barrierBlocks) >= MAX_FLOATING_BLOCKS
      after == IF ~force /\ full THEN g.barrierBlocks
               ELSE Append(g.barrierBlocks, c[2])
  IN  [g EXCEPT !.rng = c[1], !.barrierBlocks = after,
                !.spawns = Append(@, Spawn(force, g.barrierBlocks, after, c[2]))]

\* a variant of PushCandidate that makes room by dropping the newest barrier
\* (pop) instead of the oldest (shift)
PushCandidatePop(g, c, force) ==
  LET full == Len(g.barrierBlocks) >= MAX_FLOATING_BLOCKS
      after == IF ~force /\ full THEN g.barrierBlocks
               ELSE Append(IF full
                           THEN SubSeq(g.barrierBlocks, 1, Len(g.barrierBlocks) - 1)
                           ELSE g.barrierBlocks, c[2])
  IN  [g EXCEPT !.rng = c[1], !.barrierBlocks = after,
                !.spawns = Append(@, Spawn(force, g.barrierBlocks, after, c[2]))]

\* the end of spawnFloatingBlock for the candidate c = <<RNG state, barrier>>:
\* nothing at the cap unless forced, and then the oldest barrier goes
PushCandidate(g, c, force) ==
  LET full == Len(g.barrierBlocks) >= MAX_FLOATING_BLOCKS
      after == IF ~force /\ full THEN g.barrierBlocks
               ELSE Append(IF full THEN Tail(g.barrierBlocks)
                           ELSE g.barrierBlocks, c[2])
  IN  [g EXCEPT !.rng = c[1], !.barrierBlocks = after,
                !.spawns = Append(@, Spawn(force, g.barrierBlocks, after, c[2]))]

\* Game.spawnFloatingBlock({ force })
spawnFloatingBlock(game, force) ==
  (CHOOSE it \in {IF g.isGameOver THEN g
        ELSE (CHOOSE it \in {PushCandidate(g, c, force) :
                     c \in {CandidateLoop(c0, g.barrierBlocks, g.turn, 18) :
                              c0 \in {createCandidate(g.rng, g.turn)}}} : TRUE) :
          g \in {game}} : TRUE)

RECURSIVE seedLoop(_, _)
seedLoop(g, n) ==
  CASE n = 0 -> g
    [] n = 1 -> spawnFloatingBlock(g, TRUE)
    [] OTHER -> CHOOSE it \in {seedLoop(g1, n - n \div 2) :
                                g1 \in {seedLoop(g, n \div 2)}} : TRUE

\* Game.seedFloatingBlocks()
seedFloatingBlocks(g) == seedLoop(g, 6)

-----------------------------------------------------------------------------
(* Collision resolver.  g.passes logs, for the running update, every        *)
(* collision pass in which the ball hit something (history only).           *)

\* one entry of the hit log: the entity as the hit has left it
Hit(kind, id, entity, dChain, dScore, bounce) ==
  [kind |-> kind, id |-> id, strength |-> entity.strength,
   destroyed |-> entity.destroyed, created |-> entity.created,
   hits |-> entity.hits, dChain |-> dChain, dScore |-> dScore,
   bounce |-> bounce]

\* the bounce of a hit: the rectangle, the ball as the hit found it (prevX
\* and prevY are its position before Ball.update) and as the hit has left it
Bounce(rect, ball, ball1) == [rect |-> rect, from |-> ball, to |-> ball1]

\* a variant of BlockAward that charges 5 points for hitting a block
BlockAwardCharged(block) ==
  IF block.type = "pickup" THEN 10 ELSE IF block.type = "block" THEN 0 - 5 ELSE 0

\* the score awarded for a hit: this.score += 10 (pickup), += 5 (block)
BlockAward(block) ==
  IF block.type = "pickup" THEN 10 ELSE IF block.type = "block" THEN 5 ELSE 0

\* a variant of BlockDestroyed that leaves a collected pickup in place
BlockDestroyedByStrength(block, strength) ==
  block.type = "block" /\ strength <= 0

\* block.destroyed after a hit that leaves the given strength: a pickup is
\* destroyed at once, a block when its strength is used up
BlockDestroyed(block, strength) ==
  block.type = "pickup" \/ (block.type = "block" /\ strength <= 0)

\* the body of the for...of loop of the grid game's handleCollisions for the
\* i-th block: <<game, ball, hits>>
BlockPass(g, ball, i, hits) ==
  LET block == g.blocks[i]
      rect == BlockRect(block)
      prevY == FSub(ball.y, ball.vy)
      isHorizontal == \/ FLeq(FAdd(prevY, FOfInt(BALL_RADIUS)), rect.y)
                      \/ FLeq(FAdd(rect.y, rect.h), FSub(prevY, FOfInt(BALL_RADIUS)))
      pickup == block.type = "pickup"
      strength == IF block.type = "block" THEN block.strength - 1
                  ELSE block.strength
      destroyed == BlockDestroyed(block, strength)
      dScore == BlockAward(block)
      dChain == IF pickup THEN 1 ELSE 0
      g1 == [g EXCEPT !.blocks[i].strength = strength,
                      !.blocks[i].destroyed = destroyed,
                      !.blocks[i].hits = @ + 1,
                      !.ballChain = @ + dChain,
                      !.score = @ + dScore]
      ball1 == IF isHorizontal THEN [ball EXCEPT !.vy = FNeg(@)]
               ELSE [ball EXCEPT !.vx = FNeg(@)]
  IN  IF block.destroyed \/ ~circleRectCollision(ball, rect)
      THEN <<g, ball, hits>>
      ELSE <<g1, ball1,
             Append(hits, Hit(block.type, <<block.col, block.row>>,
                              g1.blocks[i], dChain, dScore,
                              Bounce(rect, ball, ball1)))>>

RECURSIVE BlockLoop(_, _, _, _, _)
\* the for...of loop of the grid game's handleCollisions over the blocks
\* i..j in their order, those up to the middle one first: <<game, ball, hits>>
BlockLoop(g, ball, i, j, hits) ==
  CASE i > j -> <<g, ball, hits>>
    [] i = j -> BlockPass(g, ball, i, hits)
    [] OTHER ->
         CHOOSE it \in {BlockLoop(n[1], n[2], (i + j) \div 2 + 1, j, n[3]) :
                         n \in {BlockLoop(g, ball, i, (i + j) \div 2, hits)}} :
           TRUE

\* barrier.strength <= 0 after a hit, which marks the barrier destroyed
BarrierDestroyed(strength) == strength <= 0

\* the body of the for...of loop of the barrier game's handleCollisions at
\* position i.  The array iterator reads barrierBlocks[i] of the live array,
\* which the forced spawn of a destruction changes under it (push, and shift
\* at the cap), and ends once i is past the array's end.
BarrierPass(g, ball, i, hits) ==
  IF i > Len(g.barrierBlocks) THEN <<g, ball, hits>>
  ELSE
    LET barrier == g.barrierBlocks[i]
        rect == BarrierRect(barrier)
        prevY == IF ball.prevY = NullF THEN ball.y ELSE ball.prevY
        isHorizontal == \/ FLeq(FAdd(prevY, FOfInt(BALL_RADIUS)), rect.y)
                        \/ FLeq(FAdd(rect.y, rect.h), FSub(prevY, FOfInt(BALL_RADIUS)))
        strength == barrier.strength - 1
        destroyed == BarrierDestroyed(strength)
        gT == [g EXCEPT !.tested = Append(@, <<barrier.x, barrier.y>>)]
        g1 == [gT EXCEPT !.barrierBlocks[i].strength = strength,
                         !.barrierBlocks[i].destroyed = destroyed,
                         !.barrierBlocks[i].hits = @ + 1,
                         !.score = @ + 8]
        g2 == IF destroyed THEN spawnFloatingBlock(g1, TRUE) ELSE g1
        ball1 == IF isHorizontal THEN [ball EXCEPT !.vy = FNeg(@)]
                 ELSE [ball EXCEPT !.vx = FNeg(@)]
    IN  IF barrier.destroyed THEN <<g, ball, hits>>
        ELSE IF ~circleRectCollision(ball, rect) THEN <<gT, ball, hits>>
        ELSE <<g2, ball1,
               Append(hits, Hit("barrier", <<barrier.x, barrier.y>>,
                                g1.barrierBlocks[i], 0, 8,
                                Bounce(rect, ball, ball1)))>>

RECURSIVE BarrierLoop(_, _, _, _, _)
\* the for...of loop of the barrier game's handleCollisions over the
\* positions i..j in their order, those up to the middle one first:
\* <<game, ball, hits>>
BarrierLoop(g, ball, i, j, hits) ==
  CASE i > j -> <<g, ball, hits>>
    [] i = j -> BarrierPass(g, ball, i, hits)
    [] OTHER ->
         CHOOSE it \in {BarrierLoop(n[1], n[2], (i + j) \div 2 + 1, j, n[3]) :
                         n \in {BarrierLoop(g, ball, i, (i + j) \div 2, hits)}} :
           TRUE

\* a variant of FilterDestroyed that leaves the destroyed entities in the
\* collection
FilterDestroyedNone(g, r, b) ==
  LET g1 == r[1]
      pass == [ball |-> b, hits |-> r[3],
               before |-> IF variant = "grid" THEN g.blocks ELSE g.barrierBlocks,
               after |-> IF variant = "grid" THEN g1.blocks ELSE g1.barrierBlocks,
               chain |-> <<g.ballChain, g1.ballChain>>,
               score |-> <<g.score, g1.score>>,
               tested |-> SubSeq(g1.tested, Len(g.tested) + 1, Len(g1.tested))]
  IN  <<IF r[3] = <<>> THEN g1
        ELSE [g1 EXCEPT !.passes = Append(@, pass),
                        !.sinceLaunch.hits = @ + Len(r[3])],
        r[2]>>

\* the end of Game.handleCollisions(ball), after the loop has left
\* r = <<game, ball, hits>>: the filter that drops the destroyed entities
FilterDestroyed(g, r, b) ==
  LET g1 == IF variant = "grid"
            THEN [r[1] EXCEPT !.blocks = NotDestroyed(@)]
            ELSE [r[1] EXCEPT !.barrierBlocks = NotDestroyed(@)]
      pass == [ball |-> b, hits |-> r[3],
               before |-> IF variant = "grid" THEN g.blocks ELSE g.barrierBlocks,
               after |-> IF variant = "grid" THEN g1.blocks ELSE g1.barrierBlocks,
               chain |-> <<g.ballChain, g1.ballChain>>,
               score |-> <<g.score, g1.score>>,
               tested |-> SubSeq(g1.tested, Len(g.tested) + 1, Len(g1.tested))]
  IN  <<IF r[3] = <<>> THEN g1
        ELSE [g1 EXCEPT !.passes = Append(@, pass),
                        !.sinceLaunch.hits = @ + Len(r[3])],
        r[2]>>

\* Game.handleCollisions(ball) for the ball at index b: <<game, ball>>
\* A pass of the barrier loop pushes at most one barrier, and none for a
\* barrier pushed in the same call (its strength is 2 or more), so the
\* iterator is done by twice the length that the array has at the start.
handleCollisions(g, ball, b) ==
  (CHOOSE it \in {FilterDestroyed(g, r, b) :
          r \in {IF variant = "grid"
                 THEN BlockLoop(g, ball, 1, Len(g.blocks), <<>>)
                 ELSE BarrierLoop(g, ball, 1, 2 * Len(g.barrierBlocks), <<>>)}} : TRUE)

-----------------------------------------------------------------------------
(* Turn state machine *)

\* Game.gameOver()
gameOver(g) ==
  [g EXCEPT !.isLaunching = FALSE, !.isAiming = FALSE, !.turnAngle = NullF,
            !.isGameOver = TRUE]

\* a variant of atBottom that tests the bottom edge of the canvas itself
atBottomOfCanvas(block) == block.row * GRID_SIZE >= GAME_HEIGHT

\* the test of stepRowsDown: the block has reached the launcher's row
atBottom(block) == block.row * GRID_SIZE >= GAME_HEIGHT - GRID_SIZE

\* the body of the for...of loop of stepRowsDown for the i-th block, which
\* the loop does not reach once it has returned true: <<game, reachedBottom>>
RowDown(down, i) ==
  IF down[2] THEN down
  ELSE (CHOOSE it \in {IF atBottom(g1.blocks[i]) THEN <<gameOver(g1), TRUE>>
             ELSE <<g1, FALSE>> :
               g1 \in {[down[1] EXCEPT !.blocks[i].row = @ + 1]}} : TRUE)

RECURSIVE RowsDown(_, _, _)
\* the for...of loop of stepRowsDown over the blocks i..j in their order,
\* those up to the middle one first
RowsDown(down, i, j) ==
  CASE i > j -> down
    [] i = j -> RowDown(down, i)
    [] OTHER -> CHOOSE it \in {RowsDown(d, (i + j) \div 2 + 1, j) :
                                d \in {RowsDown(down, i, (i + j) \div 2)}} : TRUE

\* Game.stepRowsDown(): <<game, reachedBottom>>
stepRowsDown(g) == RowsDown(<<g, FALSE>>, 1, Len(g.blocks))

\* Game.launchTurn(angle)
launchTurn(g, angle) ==
  [g EXCEPT !.isLaunching = TRUE, !.turnAngle = angle,
            !.pendingBalls = g.ballChain, !.launchTimer = FZero,
            !.restingBalls = 0, !.activeBallChainLanding = NullF,
            !.chainAtLaunch = g.ballChain, !.sinceSpawn = TallyOf(FZero),
            !.sinceLaunch = [score |-> g.score, hits |-> 0]]

\* a variant of finishTurn that spawns the new row without stepping the
\* rows down
finishTurnNoDescent(g) ==
  LET g1 == [g EXCEPT !.isLaunching = FALSE, !.isAiming = FALSE,
                      !.turnAngle = NullF, !.turn = @ + 1, !.balls = <<>>,
                      !.baseBallPosition =
                         IF g.activeBallChainLanding = NullF THEN @
                         ELSE g.activeBallChainLanding,
                      !.fin = <<[pendingBalls |-> g.pendingBalls,
                                 balls |-> g.balls, blocks |-> g.blocks,
                                 turn |-> g.turn, isLaunching |-> g.isLaunching,
                                 landing |-> g.activeBallChainLanding,
                                 base |-> g.baseBallPosition,
                                 angle |-> g.turnAngle, score |-> g.score,
                                 chain |-> g.chainAtLaunch,
                                 sinceLaunch |-> g.sinceLaunch]>>]
  IN  IF variant = "grid" THEN spawnRow(g1) ELSE g1

\* Game.finishTurn(): the first definition steps the rows down and spawns a
\* row, the second does neither
finishTurn(g) ==
  LET g1 == [g EXCEPT !.isLaunching = FALSE, !.isAiming = FALSE,
                      !.turnAngle = NullF, !.turn = @ + 1, !.balls = <<>>,
                      !.baseBallPosition =
                         IF g.activeBallChainLanding = NullF THEN @
                         ELSE g.activeBallChainLanding,
                      !.fin = <<[pendingBalls |-> g.pendingBalls,
                                 balls |-> g.balls, blocks |-> g.blocks,
                                 turn |-> g.turn, isLaunching |-> g.isLaunching,
                                 landing |-> g.activeBallChainLanding,
                                 base |-> g.baseBallPosition,
                                 angle |-> g.turnAngle, score |-> g.score,
                                 chain |-> g.chainAtLaunch,
                                 sinceLaunch |-> g.sinceLaunch]>>]
  IN  IF variant = "grid"
      THEN (CHOOSE it \in {IF down[2] THEN down[1] ELSE spawnRow(down[1]) :
                   down \in {stepRowsDown(g1)}} : TRUE)
      ELSE g1

\* a variant of Replenish that forces the spawn
ReplenishForced(g) == spawnFloatingBlock(g, TRUE)

\* this.spawnFloatingBlock() after a ball spawn: force is left at its
\* default, false
Replenish(g) == spawnFloatingBlock(g, FALSE)

\* a variant of Sequencer that does not re-arm the launch timer
SequencerNoDelay(g, delta) ==
  IF ~g.isLaunching THEN g
  ELSE
    LET timer == FSub(g.launchTimer, delta)
        since == TallyAdd(g.sinceSpawn, TallyOf(delta))
        spawnPointX == IF g.activeBallChainLanding = NullF
                       THEN g.baseBallPosition ELSE g.activeBallChainLanding
        ball == Ball(spawnPointX, FOfInt(baseY - BALL_RADIUS), g.turnAngle)
        g1 == [g EXCEPT !.launchTimer = FZero, !.pendingBalls = @ - 1,
                        !.balls = Append(@, ball),
                        !.spawned = @ + 1, !.born = <<ball>>,
                        !.gap = IF g.balls = <<>> THEN <<>> ELSE since,
                        !.sinceSpawn = TallyOf(FZero)]
    IN  IF g.pendingBalls > 0 /\ FLeq(timer, FZero)
        THEN IF variant = "grid" THEN g1 ELSE Replenish(g1)
        ELSE [g EXCEPT !.launchTimer = timer,
                       !.sinceSpawn = IF g.pendingBalls > 0 THEN since ELSE @]

\* the launch sequencer at the head of Game.update(delta)
Sequencer(g, delta) ==
  IF ~g.isLaunching THEN g
  ELSE
    LET timer == FSub(g.launchTimer, delta)
        since == TallyAdd(g.sinceSpawn, TallyOf(delta))
        spawnPointX == IF g.activeBallChainLanding = NullF
                       THEN g.baseBallPosition ELSE g.activeBallChainLanding
        ball == Ball(spawnPointX, FOfInt(baseY - BALL_RADIUS), g.turnAngle)
        g1 == [g EXCEPT !.launchTimer = FRatio(1, 10), !.pendingBalls = @ - 1,
                        !.balls = Append(@, ball),
                        !.spawned = @ + 1, !.born = <<ball>>,
                        !.gap = IF g.balls = <<>> THEN <<>> ELSE since,
                        !.sinceSpawn = TallyOf(FZero)]
    IN  IF g.pendingBalls > 0 /\ FLeq(timer, FZero)
        THEN IF variant = "grid" THEN g1 ELSE Replenish(g1)
        ELSE [g EXCEPT !.launchTimer = timer,
                       !.sinceSpawn = IF g.pendingBalls > 0 THEN since ELSE @]

\* a variant of Landing that records the landing height for the landing
\* position
LandingAtY(hc, i) ==
  LET g1 == hc[1]
      ball == hc[2]
      lands == /\ FLeq(FOfInt(baseY), FAdd(ball.y, FOfInt(BALL_RADIUS)))
               /\ FLess(FZero, ball.vy)
  IN  IF lands
      THEN [g1 EXCEPT !.balls[i] = SetResting(ball),
                      !.restingBalls = @ + 1,
                      !.activeBallChainLanding =
                         IF @ = NullF THEN ball.y ELSE @,
                      !.landed = Append(@, [i |-> i, ball |-> ball])]
      ELSE [g1 EXCEPT !.balls[i] = ball]

\* a variant of Landing in which every landing ball moves the landing
\* position
LandingLast(hc, i) ==
  LET g1 == hc[1]
      ball == hc[2]
      lands == /\ FLeq(FOfInt(baseY), FAdd(ball.y, FOfInt(BALL_RADIUS)))
               /\ FLess(FZero, ball.vy)
  IN  IF lands
      THEN [g1 EXCEPT !.balls[i] = SetResting(ball),
                      !.restingBalls = @ + 1,
                      !.activeBallChainLanding = ball.x,
                      !.landed = Append(@, [i |-> i, ball |-> ball])]
      ELSE [g1 EXCEPT !.balls[i] = ball]

\* the landing test of the loop over the balls, for the i-th ball after its
\* collision pass hc = <<game, ball>>
Landing(hc, i) ==
  LET g1 == hc[1]
      ball == hc[2]
      lands == /\ FLeq(FOfInt(baseY), FAdd(ball.y, FOfInt(BALL_RADIUS)))
               /\ FLess(FZero, ball.vy)
  IN  IF lands
      THEN [g1 EXCEPT !.balls[i] = SetResting(ball),
                      !.restingBalls = @ + 1,
                      !.activeBallChainLanding =
                         IF @ = NullF THEN ball.x ELSE @,
                      !.landed = Append(@, [i |-> i, ball |-> ball])]
      ELSE [g1 EXCEPT !.balls[i] = ball]

\* the body of the for...of loop over the balls in Game.update(delta), for
\* the i-th ball
BallPass(g, delta, i) ==
  IF g.balls[i].resting THEN g
  ELSE (CHOOSE it \in {Landing(hc, i) :
               hc \in {handleCollisions(g, ball, i) :
                         ball \in {BallUpdate(g.balls[i], delta)}}} : TRUE)

RECURSIVE BallLoop(_, _, _, _)
\* the for...of loop over the balls i..j in Game.update(delta), in their
\* order, those up to the middle one first
BallLoop(g, delta, i, j) ==
  CASE i > j -> g
    [] i = j -> BallPass(g, delta, i)
    [] OTHER -> CHOOSE it \in {BallLoop(g1, delta, (i + j) \div 2 + 1, j) :
                                g1 \in {BallLoop(g, delta, i, (i + j) \div 2)}} :
                  TRUE

\* a variant of TurnEnd that ends the turn as soon as every ball is spawned
TurnEndNoRestCheck(g1) ==
  IF g1.isLaunching /\ g1.pendingBalls = 0 THEN finishTurn(g1) ELSE g1

\* the end of Game.update(delta): the turn is finished once no ball is
\* pending and every ball rests
TurnEnd(g1) ==
  IF /\ g1.isLaunching
     /\ g1.pendingBalls = 0
     /\ \A i \in 1..Len(g1.balls) : g1.balls[i].resting
  THEN finishTurn(g1)
  ELSE g1

\* a variant of update that returns at once during a launch as well, as it
\* does when the game is over
updateBetweenTurns(game, delta) ==
  (CHOOSE it \in {IF g.isGameOver \/ g.isLaunching THEN g
        ELSE (CHOOSE it \in {TurnEnd(g2) : g2 \in {BallLoop(g1, delta, 1, Len(g1.balls)) :
                                            g1 \in {Sequencer(g, delta)}}} : TRUE) :
          g \in {game}} : TRUE)

\* Game.update(delta)
update(game, delta) ==
  (CHOOSE it \in {IF g.isGameOver THEN g
        ELSE (CHOOSE it \in {TurnEnd(g2) : g2 \in {BallLoop(g1, delta, 1, Len(g1.balls)) :
                                            g1 \in {Sequencer(g, delta)}}} : TRUE) :
          g \in {game}} : TRUE)

\* Math.atan2(pos.y - baseY, pos.x - baseBallPosition) for the pointer offsets
\* of the model:
\*   atan2(-4, 0) = -1.5707963267948966
\*   atan2(-4, 3) = -0.9272952180016122
\*   atan2(-4, -3) = -2.214297435588181
\*   atan2(-3, 4) = -0.6435011087932844
\*   atan2(-3, -4) = -2.498091544796509
\*   atan2(1, 4) = 0.24497866312686414
\*   atan2(1, -4) = 2.896613990462929
\*   atan2(-1, -4) = -2.896613990462929
\*   atan2(-1, 4) = -0.24497866312686414
\*   atan2(0, 0) = 0.0
\*   atan2(0, -4) = 3.141592653589793
Atan2(dy, dx) ==
  CASE dx = 0 /\ dy = 0 - 4 -> <<0 - 1, 0 - 52, 105414357, 4467992>>
    [] dx = 3 /\ dy = 0 - 4 -> <<0 - 1, 0 - 53, 124459457, 23182159>>
    [] dx = 0 - 3 /\ dy = 0 - 4 -> <<0 - 1, 0 - 51, 74299492, 49004100>>
    [] dx = 4 /\ dy = 0 - 3 -> <<0 - 1, 0 - 53, 86369256, 52862689>>
    [] dx = 0 - 4 /\ dy = 0 - 3 -> <<0 - 1, 0 - 51, 83822042, 58361184>>
    [] dx = 4 /\ dy = 1 -> <<1, 0 - 55, 131521918, 19693789>>
    [] dx = 0 - 4 /\ dy = 1 -> <<1, 0 - 51, 97194237, 11625738>>
    [] dx = 0 - 4 /\ dy = 0 - 1 -> <<0 - 1, 0 - 51, 97194237, 11625738>>
    [] dx = 4 /\ dy = 0 - 1 -> <<0 - 1, 0 - 55, 131521918, 19693789>>
    [] dx = 0 /\ dy = 0 -> <<0, 0, 0, 0>>
    [] dx = 0 - 4 /\ dy = 0 -> <<1, 0 - 51, 105414357, 4467992>>

\* a variant of AimAngle that clamps to [-Math.PI + 0.35, 0.35]
AimAngleUpTo035(p) ==
  clamp(Atan2(p.dy, p.dx), FAdd(FNeg(PI), FRatio(35, 100)), FRatio(35, 100))

\* the aim angle of startAim and moveAim: atan2 clamped to
\* [-Math.PI + 0.35, -0.35]
AimAngle(p) ==
  clamp(Atan2(p.dy, p.dx), FAdd(FNeg(PI), FRatio(35, 100)), FNeg(FRatio(35, 100)))

\* a variant of startAim without its guard
startAimUnguarded(g, p) ==
  [g EXCEPT !.isAiming = TRUE, !.turnAngle = AimAngle(p)]

\* a variant of startAim that does not look at isGameOver
startAimAfterGameOver(g, p) ==
  IF g.isLaunching THEN g
  ELSE [g EXCEPT !.isAiming = TRUE, !.turnAngle = AimAngle(p)]

\* startAim(event) of Game.bindEvents
startAim(g, p) ==
  IF g.isLaunching \/ g.isGameOver THEN g
  ELSE [g EXCEPT !.isAiming = TRUE, !.turnAngle = AimAngle(p)]

\* moveAim(event)
moveAim(g, p) ==
  IF ~g.isAiming \/ g.isLaunching THEN g
  ELSE [g EXCEPT !.turnAngle = AimAngle(p)]

\* a variant of endAim without its guard
endAimUnguarded(g) ==
  IF g.turnAngle = NullF THEN [g EXCEPT !.isAiming = FALSE]
  ELSE launchTurn([g EXCEPT !.isAiming = FALSE], g.turnAngle)

\* endAim()
endAim(g) ==
  IF ~g.isAiming \/ g.isLaunching THEN g
  ELSE IF g.turnAngle = NullF THEN [g EXCEPT !.isAiming = FALSE]
  ELSE launchTurn([g EXCEPT !.isAiming = FALSE], g.turnAngle)

\* the assignments of reset(), before it calls spawnRow
ResetFields(g) ==
  [g EXCEPT !.blocks = <<>>, !.balls = <<>>, !.barrierBlocks = <<>>,
            !.pendingBalls = 0, !.ballChain = 1,
            !.baseBallPosition = FRatio(GAME_WIDTH, 2),
            !.turnAngle = NullF, !.isAiming = FALSE,
            !.isLaunching = FALSE, !.turn = 1, !.score = 0,
            !.isGameOver = FALSE]

\* a variant of reset that leaves a running launch running
resetKeepsLaunch(g) ==
  LET g1 == [g EXCEPT !.blocks = <<>>, !.balls = <<>>, !.barrierBlocks = <<>>,
                      !.ballChain = 1,
                      !.baseBallPosition = FRatio(GAME_WIDTH, 2),
                      !.turnAngle = NullF, !.isAiming = FALSE,
                      !.turn = 1, !.score = 0,
                      !.isGameOver = FALSE]
  IN  IF variant = "grid" THEN spawnRow(g1) ELSE seedFloatingBlocks(g1)

\* Game.reset()
reset(g) ==
  LET g1 == [g EXCEPT !.blocks = <<>>, !.balls = <<>>, !.barrierBlocks = <<>>,
                      !.pendingBalls = 0, !.ballChain = 1,
                      !.baseBallPosition = FRatio(GAME_WIDTH, 2),
                      !.turnAngle = NullF, !.isAiming = FALSE,
                      !.isLaunching = FALSE, !.turn = 1, !.score = 0,
                      !.isGameOver = FALSE]
  IN  IF variant = "grid" THEN spawnRow(g1) ELSE seedFloatingBlocks(g1)
-----------------------------------------------------------------------------
(* The state machine *)

\* the seeds of new RNG(seed) explored (Date.now() & 0xffffffff in the code)
Seeds == {<<12345, 54321>>}

\* the positive times between two animation frames explored, in quarters of
\* a millisecond: 40 ms in the grid game, which Game.loop caps, and 25 ms in
\* the barrier game
FrameTimes == IF variant = "grid" THEN {160} ELSE {100}

\* delta of Game.loop for a frame q quarter milliseconds after the last:
\* (timestamp - this.previousTime) / 1000
Delta(q) == FRatio(q, 4000)

\* cappedDelta of Game.loop: Math.min(delta, 0.033)
CappedDelta(q) == FMin(Delta(q), FRatio(33, 1000))

\* the pointer position explored, as offsets in pixels from the launcher
\* (pos.x - baseBallPosition and pos.y - baseY): straight above it.  SpecLong,
\* SpecWall and SpecAim explore others
Pointers == {[dx |-> 0, dy |-> 0 - 4]}

\* no call of spawnRow is running
NoRowLoop == [running |-> FALSE, blockCount |-> 0, taken |-> {}]

\* the log of an operation that has done nothing yet
NoLog(op) ==
  [op |-> op, spawned |-> 0, gap |-> <<>>, passes |-> <<>>, fin |-> <<>>,
   spawns |-> <<>>, rows |-> <<>>, result |-> NULL, born |-> <<>>,
   landed |-> <<>>, probe |-> <<>>,
   from |-> [isAiming |-> FALSE, isLaunching |-> FALSE, isGameOver |-> FALSE]]

\* the Game object of the current state, with an empty log
Game ==
  [rng |-> rng, blocks |-> blocks, barrierBlocks |-> barrierBlocks,
   balls |-> balls, pendingBalls |-> pendingBalls, ballChain |-> ballChain,
   baseBallPosition |-> baseBallPosition, turnAngle |-> turnAngle,
   isAiming |-> isAiming, isLaunching |-> isLaunching,
   isGameOver |-> isGameOver, turn |-> turn, score |-> score,
   launchTimer |-> launchTimer,
   activeBallChainLanding |-> activeBallChainLanding,
   restingBalls |-> restingBalls, chainAtLaunch |-> chainAtLaunch,
   sinceSpawn |-> sinceSpawn, sinceLaunch |-> sinceLaunch,
   spawned |-> 0, gap |-> <<>>, passes |-> <<>>, fin |-> <<>>,
   spawns |-> <<>>, rows |-> <<>>, born |-> <<>>, landed |-> <<>>,
   tested |-> <<>>, result |-> NULL]

\* the next state holds the fields of the Game object g, left there by
\* operation op
Assigns(object, op) ==
  \E g \in {object} :
    /\ rng' = g.rng
    /\ blocks' = g.blocks
    /\ barrierBlocks' = g.barrierBlocks
    /\ balls' = g.balls
    /\ pendingBalls' = g.pendingBalls
    /\ ballChain' = g.ballChain
    /\ baseBallPosition' = g.baseBallPosition
    /\ turnAngle' = g.turnAngle
    /\ isAiming' = g.isAiming
    /\ isLaunching' = g.isLaunching
    /\ isGameOver' = g.isGameOver
    /\ turn' = g.turn
    /\ score' = g.score
    /\ launchTimer' = g.launchTimer
    /\ activeBallChainLanding' = g.activeBallChainLanding
    /\ restingBalls' = g.restingBalls
    /\ chainAtLaunch' = g.chainAtLaunch
    /\ sinceSpawn' = g.sinceSpawn
    /\ sinceLaunch' = g.sinceLaunch
    /\ obs' = [op |-> op, spawned |-> g.spawned, gap |-> g.gap,
               passes |-> g.passes, fin |-> g.fin, spawns |-> g.spawns,
               rows |-> g.rows, result |-> g.result, born |-> g.born,
               landed |-> g.landed, probe |-> <<>>,
               from |-> [isAiming |-> isAiming, isLaunching |-> isLaunching,
                         isGameOver |-> isGameOver]]
    /\ UNCHANGED <<variant, canvasHeight>>

\* the next state holds the Game object g, left there by operation op, which
\* has returned
Becomes(g, op) == Assigns(g, op) /\ UNCHANGED rowLoop

\* the variables hold the Game object g
InitGame(object) ==
  \E g \in {object} :
    /\ rng = g.rng
    /\ blocks = g.blocks
    /\ barrierBlocks = g.barrierBlocks
    /\ balls = g.balls
    /\ pendingBalls = g.pendingBalls
    /\ ballChain = g.ballChain
    /\ baseBallPosition = g.baseBallPosition
    /\ turnAngle = g.turnAngle
    /\ isAiming = g.isAiming
    /\ isLaunching = g.isLaunching
    /\ isGameOver = g.isGameOver
    /\ turn = g.turn
    /\ score = g.score
    /\ launchTimer = g.launchTimer
    /\ activeBallChainLanding = g.activeBallChainLanding
    /\ restingBalls = g.restingBalls
    /\ chainAtLaunch = g.chainAtLaunch
    /\ sinceSpawn = g.sinceSpawn
    /\ sinceLaunch = g.sinceLaunch

\* new Game(): the constructor seeds the RNG with one of seeds and calls
\* reset()
NewGame(seeds) ==
  /\ restarts = 0
  /\ launches = 0
  /\ calls = 0
  /\ previousTime = 0
  /\ obs = NoLog("init")
  /\ rowLoop = NoRowLoop
  /\ \E seed \in seeds :
       InitGame(reset([rng |-> seed, blocks |-> <<>>, barrierBlocks |-> <<>>,
                       balls |-> <<>>, pendingBalls |-> 0, ballChain |-> 1,
                       baseBallPosition |-> NullF, turnAngle |-> NullF,
                       isAiming |-> FALSE, isLaunching |-> FALSE,
                       isGameOver |-> FALSE, turn |-> 1, score |-> 0,
                       launchTimer |-> NullF, activeBallChainLanding |-> NullF,
                       restingBalls |-> NULL, chainAtLaunch |-> NULL,
                       sinceSpawn |-> TallyOf(FZero),
                       sinceLaunch |-> [score |-> 0, hits |-> 0],
                       spawned |-> 0, gap |-> <<>>, passes |-> <<>>,
                       fin |-> <<>>, spawns |-> <<>>, rows |-> <<>>,
                       born |-> <<>>, landed |-> <<>>,
                       tested |-> <<>>, result |-> NULL]))

\* a new game of either definition on its page
Init ==
  /\ variant \in {"grid", "barrier"}
  /\ canvasHeight = PageHeight
  /\ NewGame(Seeds)

\* mousedown / touchstart at pointer position p
PointerDown ==
  /\ isLaunching \/ isGameOver \/ launches < MaxLaunches
  /\ \E p \in Pointers : Becomes(startAim(Game, p), "pointerDown")
  /\ UNCHANGED <<restarts, launches, calls, previousTime>>

\* mousemove / touchmove at pointer position p
PointerMove ==
  /\ \E p \in Pointers : Becomes(moveAim(Game, p), "pointerMove")
  /\ UNCHANGED <<restarts, launches, calls, previousTime>>

\* mouseup / mouseleave / touchend
PointerUp ==
  /\ Becomes(endAim(Game), "pointerUp")
  /\ launches' = IF isLaunching' /\ ~isLaunching THEN launches + 1 ELSE launches
  /\ UNCHANGED <<restarts, calls, previousTime>>

\* click on a restart button
Restart ==
  /\ restarts < MaxRestarts
  /\ Becomes(reset(Game), "restart")
  /\ restarts' = restarts + 1
  /\ UNCHANGED <<launches, calls, previousTime>>

\* Game.loop(timestamp), one animation frame: delta is 0 while previousTime
\* is falsy (the constructor's loop(0) leaves it 0, the first frame sets it)
\* and positive afterwards; update runs with Math.min(delta, 0.033)
Loop ==
  /\ \E q \in (IF previousTime = 0 THEN {0} ELSE FrameTimes) :
       \E cappedDelta \in {CappedDelta(q)} :
         Becomes(update(Game, cappedDelta), "update")
  /\ previousTime' = 1
  /\ UNCHANGED <<restarts, launches, calls>>

Next == PointerDown \/ PointerMove \/ PointerUp \/ Restart \/ Loop

Spec == Init /\ [][Next]_vars

\* Game.finishTurn() called directly on a game that is not launching, as a
\* test of the method would call it
CallFinishTurn ==
  /\ ~isLaunching
  /\ calls < MaxCalls
  /\ Becomes(finishTurn(Game), "finishTurn")
  /\ calls' = calls + 1
  /\ UNCHANGED <<restarts, launches, previousTime>>

NextCall == Next \/ CallFinishTurn

\* the game together with direct calls of finishTurn()
SpecCall == Init /\ [][NextCall]_vars

\* the pointer positions of a long game: straight above the launcher in the
\* barrier game; that and the clamped aim to the left in the grid game, which
\* game over ends after two turns
LongPointers ==
  IF variant = "grid" THEN {[dx |-> 0, dy |-> 0 - 4], [dx |-> 0 - 4, dy |-> 1]}
  ELSE {[dx |-> 0, dy |-> 0 - 4]}

\* mousedown / touchstart of a long game
LongPointerDown ==
  /\ isLaunching \/ isGameOver \/ launches < MaxLongLaunches
  /\ \E p \in LongPointers : Becomes(startAim(Game, p), "pointerDown")
  /\ UNCHANGED <<restarts, launches, calls, previousTime>>

\* mousemove / touchmove of a long game
LongPointerMove ==
  /\ \E p \in LongPointers : Becomes(moveAim(Game, p), "pointerMove")
  /\ UNCHANGED <<restarts, launches, calls, previousTime>>

NextLong == LongPointerDown \/ LongPointerMove \/ PointerUp \/ Loop

\* long games: many turns, each launched straight up
SpecLong == Init /\ [][NextLong]_vars

\* the pointer positions of the games along the walls: up and to the right,
\* and straight up
WallPointers == {[dx |-> 3, dy |-> 0 - 4], [dx |-> 0, dy |-> 0 - 4]}

\* a new game of the second definition
InitWall == Init /\ variant = "barrier"

\* mousedown / touchstart of a game along the walls
WallPointerDown ==
  /\ isLaunching \/ isGameOver \/ launches < MaxWallLaunches
  /\ \E p \in WallPointers : Becomes(startAim(Game, p), "pointerDown")
  /\ UNCHANGED <<restarts, launches, calls, previousTime>>

NextWall == WallPointerDown \/ PointerUp \/ Loop

\* barrier games whose balls come to land at the side walls
SpecWall == InitWall /\ [][NextWall]_vars

\* the seed of the game on the low page: its first row has the pickup above
\* the launcher, and its second row a block there
LowSeeds == {<<0, 14>>}

\* a new game of the first definition on the low page
InitLow ==
  /\ variant = "grid"
  /\ canvasHeight = LowPageHeight
  /\ NewGame(LowSeeds)

\* the games along the walls, and the grid game on the low page aimed at the
\* same pointer positions: the first ball of its second turn comes to rest
\* before the second ball is spawned
SpecLow == (InitWall \/ InitLow) /\ [][NextWall]_vars

\* every pointer position of the Atan2 table: above the launcher, below it,
\* level with it and on it
AimPointers ==
  {[dx |-> 0, dy |-> 0 - 4], [dx |-> 3, dy |-> 0 - 4], [dx |-> 0 - 3, dy |-> 0 - 4],
   [dx |-> 4, dy |-> 0 - 3], [dx |-> 0 - 4, dy |-> 0 - 3], [dx |-> 4, dy |-> 1],
   [dx |-> 0 - 4, dy |-> 1], [dx |-> 0 - 4, dy |-> 0 - 1], [dx |-> 4, dy |-> 0 - 1],
   [dx |-> 0, dy |-> 0], [dx |-> 0 - 4, dy |-> 0]}

\* mousedown / touchstart anywhere on the canvas
AimPointerDown ==
  /\ isLaunching \/ isGameOver \/ launches < MaxAimLaunches
  /\ \E p \in AimPointers : Becomes(startAim(Game, p), "pointerDown")
  /\ UNCHANGED <<restarts, launches, calls, previousTime>>

\* mousemove / touchmove anywhere on the canvas
AimPointerMove ==
  /\ \E p \in AimPointers : Becomes(moveAim(Game, p), "pointerMove")
  /\ UNCHANGED <<restarts, launches, calls, previousTime>>

NextAim == AimPointerDown \/ AimPointerMove \/ PointerUp \/ Loop

\* games aimed at every pointer position
SpecAim == Init /\ [][NextAim]_vars

\* the rectangle that circleRectCollision is called with: that of the first
\* block (first definition) or barrier (second definition) of a new game
FirstRect(g) ==
  IF variant = "grid" THEN BlockRect(g.blocks[1])
  ELSE BarrierRect(g.barrierBlocks[1])

ProbeRect == FirstRect([blocks |-> blocks, barrierBlocks |-> barrierBlocks])

\* the ball centres that circleRectCollision is called with: whole pixels
\* from the corner of the rectangle, up to ProbeMargin pixels around it
ProbeMargin == 9

\* the side of the rectangle in pixels: GRID_SIZE - 12, and GRID_SIZE * 0.9
ProbeSide == IF variant = "grid" THEN GRID_SIZE - 12 ELSE FFloor(BarrierSize)

\* the ball centre off[1] pixels right of and off[2] pixels below the corner
\* rect.x, rect.y
ProbeBall(rect, off) ==
  Ball(FAdd(rect.x, FOfInt(off[1])), FAdd(rect.y, FOfInt(off[2])), Halve(FNeg(PI)))

\* the game with one ball, at the corner of the region around the rectangle
WithProbeBall(g) ==
  [g EXCEPT !.balls = <<ProbeBall(FirstRect(g), <<0 - ProbeMargin, 0 - ProbeMargin>>)>>]

\* the log of a call of circleRectCollision with the ball b, off[1] and
\* off[2] pixels from the corner of the rectangle
ProbeLog(b, off) ==
  [NoLog("circleRectCollision") EXCEPT
     !.result = circleRectCollision(b, ProbeRect), !.probe = off]

\* a new game and a ball at the corner of the region around its first
\* rectangle, on which circleRectCollision has been called
InitGeom ==
  /\ variant \in {"grid", "barrier"}
  /\ canvasHeight = PageHeight
  /\ restarts = 0
  /\ launches = 0
  /\ calls = 0
  /\ previousTime = 0
  /\ \E seed \in Seeds :
       InitGame(WithProbeBall(
                  reset([rng |-> seed, blocks |-> <<>>, barrierBlocks |-> <<>>,
                        balls |-> <<>>, pendingBalls |-> 0, ballChain |-> 1,
                        baseBallPosition |-> NullF, turnAngle |-> NullF,
                        isAiming |-> FALSE, isLaunching |-> FALSE,
                        isGameOver |-> FALSE, turn |-> 1, score |-> 0,
                        launchTimer |-> NullF, activeBallChainLanding |-> NullF,
                        restingBalls |-> NULL, chainAtLaunch |-> NULL,
                        sinceSpawn |-> TallyOf(FZero),
                        sinceLaunch |-> [score |-> 0, hits |-> 0],
                        spawned |-> 0, gap |-> <<>>, passes |-> <<>>,
                        fin |-> <<>>, spawns |-> <<>>, rows |-> <<>>,
                        born |-> <<>>, landed |-> <<>>,
                        tested |-> <<>>, result |-> NULL])))
  /\ obs = ProbeLog(balls[1], <<0 - ProbeMargin, 0 - ProbeMargin>>)
  /\ rowLoop = NoRowLoop

\* circleRectCollision(ball, rect) called for the ball moved by one pixel,
\* where float64 holds the centre exactly
CallCircleRect ==
  \E d \in {<<1, 0>>, <<0 - 1, 0>>, <<0, 1>>, <<0, 0 - 1>>} :
    \E off \in {<<obs.probe[1] + d[1], obs.probe[2] + d[2]>>} :
      \E b \in {ProbeBall(ProbeRect, off)} :
        /\ off[1] >= 0 - ProbeMargin
        /\ off[1] <= ProbeSide + ProbeMargin
        /\ off[2] >= 0 - ProbeMargin
        /\ off[2] <= ProbeSide + ProbeMargin
        /\ FSub(b.x, ProbeRect.x) = FOfInt(off[1])
        /\ FSub(b.y, ProbeRect.y) = FOfInt(off[2])
        /\ balls' = <<b>>
        /\ obs' = ProbeLog(b, off)
        /\ UNCHANGED <<variant, canvasHeight, rng, blocks, barrierBlocks, pendingBalls,
                       ballChain, baseBallPosition, turnAngle, isAiming,
                       isLaunching, isGameOver, turn, score, launchTimer,
                       activeBallChainLanding, restingBalls, previousTime,
                       chainAtLaunch, sinceSpawn, sinceLaunch, restarts,
                       launches, calls, rowLoop>>

NextGeom == CallCircleRect

\* the collision test on a rectangle of the game, for balls around it
SpecGeom == InitGeom /\ [][NextGeom]_vars

\* the positions, in pixels, of the balls that Ball.update is called on: at
\* the walls, a pixel from them and away from them
BounceXs ==
  {BALL_RADIUS, BALL_RADIUS + 1, GAME_WIDTH \div 2,
   GAME_WIDTH - BALL_RADIUS - 1, GAME_WIDTH - BALL_RADIUS}

BounceYs == {BALL_RADIUS, BALL_RADIUS + 1, baseY - BALL_RADIUS}

\* the aim angles of the balls that Ball.update is called on
BounceAngles ==
  {Halve(FNeg(PI)), Atan2(0 - 4, 3), FNeg(FRatio(35, 100)),
   FAdd(FNeg(PI), FRatio(35, 100))}

\* the step sizes of Ball.update: none, a millisecond, the cap of Game.loop,
\* Math.min(delta, 0.033), and the capped frame times of the games
StepDeltas ==
  {FZero, FRatio(1, 1000), FRatio(33, 1000)}
    \cup {CappedDelta(q) : q \in FrameTimes}

\* the game with one ball in flight at x, y (pixels), launched at the angle
WithBallInFlight(g, x, y, angle) ==
  [g EXCEPT !.balls = <<Ball(FOfInt(x), FOfInt(y), angle)>>]

\* a new game with a ball in flight somewhere between the walls
InitBounce ==
  /\ variant \in {"grid", "barrier"}
  /\ canvasHeight = PageHeight
  /\ restarts = 0
  /\ launches = 0
  /\ calls = 0
  /\ previousTime = 0
  /\ obs = NoLog("new Ball")
  /\ rowLoop = NoRowLoop
  /\ \E seed \in Seeds, x \in BounceXs, y \in BounceYs, angle \in BounceAngles :
       InitGame(WithBallInFlight(
                  reset([rng |-> seed, blocks |-> <<>>, barrierBlocks |-> <<>>,
                         balls |-> <<>>, pendingBalls |-> 0, ballChain |-> 1,
                         baseBallPosition |-> NullF, turnAngle |-> NullF,
                         isAiming |-> FALSE, isLaunching |-> FALSE,
                         isGameOver |-> FALSE, turn |-> 1, score |-> 0,
                         launchTimer |-> NullF, activeBallChainLanding |-> NullF,
                         restingBalls |-> NULL, chainAtLaunch |-> NULL,
                         sinceSpawn |-> TallyOf(FZero),
                         sinceLaunch |-> [score |-> 0, hits |-> 0],
                         spawned |-> 0, gap |-> <<>>, passes |-> <<>>,
                         fin |-> <<>>, spawns |-> <<>>, rows |-> <<>>,
                         born |-> <<>>, landed |-> <<>>,
                       tested |-> <<>>, result |-> NULL]), x, y, angle))

\* ball.update(delta) called directly on the ball
CallBallUpdate ==
  /\ calls < MaxUpdateCalls
  /\ \E delta \in StepDeltas :
       Becomes([Game EXCEPT !.balls[1] = BallUpdate(@, delta)], "Ball.update")
  /\ calls' = calls + 1
  /\ UNCHANGED <<restarts, launches, previousTime>>

\* ball.vy *= -1, as handleCollisions does for a hit on a horizontal face
InvertVy ==
  /\ Becomes([Game EXCEPT !.balls[1].vy = FNeg(@)], "vy *= -1")
  /\ UNCHANGED <<restarts, launches, calls, previousTime>>

\* ball.vx *= -1, as handleCollisions does for a hit on a vertical face
InvertVx ==
  /\ Becomes([Game EXCEPT !.balls[1].vx = FNeg(@)], "vx *= -1")
  /\ UNCHANGED <<restarts, launches, calls, previousTime>>

NextBounce == CallBallUpdate \/ InvertVy \/ InvertVx

\* Ball.update on a ball between the walls, interleaved with the velocity
\* inversions of collisions
SpecBounce == InitBounce /\ [][NextBounce]_vars

\* the seeds of new RNG(seed) explored with direct calls: the seed of the
\* games above, 0x5E6CFCE7 and 0xE063F306 (one and two calls of next()
\* before the state 0xFFFFFFFF), 0xFFFFFFFF and 1
RngSeeds ==
  {<<12345, 54321>>, <<24172, 64743>>, <<57443, 62214>>, <<65535, 65535>>,
   <<0, 1>>}

\* the Game constructor after  this.rng = new RNG()  and before this.reset():
\* the RNG holds its seed and the other fields are not set yet
InitRng ==
  /\ variant \in {"grid", "barrier"}
  /\ canvasHeight = PageHeight
  /\ restarts = 0
  /\ launches = 0
  /\ calls = 0
  /\ previousTime = 0
  /\ obs = NoLog("new")
  /\ rowLoop = NoRowLoop
  /\ \E seed \in RngSeeds :
       InitGame([rng |-> seed, blocks |-> <<>>, barrierBlocks |-> <<>>,
                 balls |-> <<>>, pendingBalls |-> NULL, ballChain |-> NULL,
                 baseBallPosition |-> NullF, turnAngle |-> NullF,
                 isAiming |-> FALSE, isLaunching |-> FALSE,
                 isGameOver |-> FALSE, turn |-> NULL, score |-> NULL,
                 launchTimer |-> NullF, activeBallChainLanding |-> NullF,
                 restingBalls |-> NULL, chainAtLaunch |-> NULL,
                 sinceSpawn |-> TallyOf(FZero),
                 sinceLaunch |-> [score |-> 0, hits |-> 0]])

\* this.rng.next() called directly
CallNext ==
  /\ calls < MaxRngCalls
  /\ Becomes([Game EXCEPT !.rng = RngStep(@)], "next")
  /\ calls' = calls + 1
  /\ UNCHANGED <<restarts, launches, previousTime>>

\* this.reset(), as the constructor and the restart buttons call it
CallReset ==
  /\ calls < MaxRngCalls
  /\ Becomes(reset(Game), "reset")
  /\ calls' = calls + 1
  /\ UNCHANGED <<restarts, launches, previousTime>>

\* before the constructor has called reset() the fields are undefined
Unset(g) == g.turn = NULL

\* spawnRow() on a game without its fields: the block count, a column and a
\* strength are drawn, and this.blocks.push throws TypeError
spawnRowUnset(g) ==
  [g EXCEPT !.rng = RngStep(RngStep(RngStep(@))), !.result = "TypeError"]

\* this.spawnRow() called directly; no method of the second definition
\* calls it
CallSpawnRow ==
  /\ calls < MaxRngCalls
  /\ Becomes(IF Unset(Game) THEN spawnRowUnset(Game) ELSE spawnRow(Game), "spawnRow")
  /\ calls' = calls + 1
  /\ UNCHANGED <<restarts, launches, previousTime>>

\* this.stepRowsDown() called directly; no method of the second definition
\* calls it.  Without its fields,  for (const block of this.blocks)  throws
\* TypeError
CallStepRowsDown ==
  /\ calls < MaxRngCalls
  /\ \E down \in {IF Unset(Game) THEN <<Game, "TypeError">> ELSE stepRowsDown(Game)} :
       Becomes([down[1] EXCEPT !.result = down[2]], "stepRowsDown")
  /\ calls' = calls + 1
  /\ UNCHANGED <<restarts, launches, previousTime>>

\* this.gameOver() called directly; no method of the second definition
\* calls it
CallGameOver ==
  /\ calls < MaxRngCalls
  /\ Becomes(gameOver(Game), "gameOver")
  /\ calls' = calls + 1
  /\ UNCHANGED <<restarts, launches, previousTime>>

NextRng == CallNext \/ CallReset \/ CallSpawnRow \/ CallStepRowsDown \/ CallGameOver

\* a game under construction, its random numbers and its spawn planner
SpecRng == InitRng /\ [][NextRng]_vars

\* the seeds of new RNG(seed) that the loop of spawnRow is followed with:
\* those of the direct calls and 0, which Date.now() & 0xffffffff can be
RowSeeds == RngSeeds \cup {<<0, 0>>}

\* the constructor of the first Game definition after  this.rng = new RNG()
InitRow ==
  /\ variant = "grid"
  /\ canvasHeight = PageHeight
  /\ restarts = 0
  /\ launches = 0
  /\ calls = 0
  /\ previousTime = 0
  /\ obs = NoLog("new")
  /\ rowLoop = NoRowLoop
  /\ \E seed \in RowSeeds :
       InitGame([rng |-> seed, blocks |-> <<>>, barrierBlocks |-> <<>>,
                 balls |-> <<>>, pendingBalls |-> NULL, ballChain |-> NULL,
                 baseBallPosition |-> NullF, turnAngle |-> NullF,
                 isAiming |-> FALSE, isLaunching |-> FALSE,
                 isGameOver |-> FALSE, turn |-> NULL, score |-> NULL,
                 launchTimer |-> NullF, activeBallChainLanding |-> NullF,
                 restingBalls |-> NULL, chainAtLaunch |-> NULL,
                 sinceSpawn |-> TallyOf(FZero),
                 sinceLaunch |-> [score |-> 0, hits |-> 0]])

\* reset() up to the loop test of the spawnRow() it calls: the fields are
\* set and the block count is drawn (s0 is the RNG state of the draw)
EnterSpawnRow ==
  /\ ~rowLoop.running
  /\ calls < MaxRowCalls
  /\ \E s0 \in {RngStep(rng)} :
       /\ Assigns([ResetFields(Game) EXCEPT !.rng = s0], "reset")
       /\ rowLoop' = [running |-> TRUE, blockCount |-> RowBlockCount(s0),
                      taken |-> {}]
  /\ calls' = calls + 1
  /\ UNCHANGED <<restarts, launches, previousTime>>

\* one iteration of  while (blockCount > 0)  in spawnRow: a column is drawn
\* (in RNG state s1); a taken column is drawn again (continue), a free one
\* gets a block, whose strength is drawn (in RNG state s2)
WhileBlockCount ==
  /\ rowLoop.running
  /\ rowLoop.blockCount > 0
  /\ \E s1 \in {RngStep(rng)} :
       \E col \in {FloorMul(s1, GRID_COLUMNS)} :
         IF col \in rowLoop.taken
         THEN /\ Assigns([Game EXCEPT !.rng = s1], "spawnRow")
              /\ rowLoop' = rowLoop
         ELSE \E s2 \in {RngStep(s1)} :
                /\ Assigns([Game EXCEPT
                              !.rng = s2,
                              !.blocks = Append(@, Block(col, 0,
                                                  BlockStrength(turn, s2),
                                                  "block"))],
                           "spawnRow")
                /\ rowLoop' = [running |-> TRUE,
                               blockCount |-> rowLoop.blockCount - 1,
                               taken |-> rowLoop.taken \cup {col}]
  /\ UNCHANGED <<restarts, launches, calls, previousTime>>

\* the end of spawnRow once the loop has left (s1 and s2 are the RNG states
\* of its two draws), and the return of reset()
LeaveSpawnRow ==
  /\ rowLoop.running
  /\ rowLoop.blockCount <= 0
  /\ \E s1 \in {RngStep(rng)} :
       \E s2 \in {RngStep(s1)} :
         Assigns(SpawnPickup(Game, <<rng, rowLoop.taken, blocks>>, s1, s2),
                 "spawnRow")
  /\ rowLoop' = NoRowLoop
  /\ UNCHANGED <<restarts, launches, calls, previousTime>>

NextRow == EnterSpawnRow \/ WhileBlockCount \/ LeaveSpawnRow

\* reset() of the first Game definition, its spawnRow followed iteration by
\* iteration
SpecRow == InitRow /\ [][NextRow]_vars

\* a call runs to completion: the loop goes on while its test holds, and
\* the method returns when it fails
FairSpecRow == SpecRow /\ WF_vars(WhileBlockCount) /\ WF_vars(LeaveSpawnRow)

\* the timestamp that requestAnimationFrame hands to the frame after one
\* with timestamp p: it differs from frame to frame, and previousTime keeps
\* its parity (1 or 2; 0 is the constructor's loop(0))
NextFrameTime(p) == IF p = 1 THEN 2 ELSE 1

\* Game.loop(timestamp) with the timestamp kept: update as in Loop, and
\* this.previousTime = timestamp
Frame ==
  /\ \E q \in (IF previousTime = 0 THEN {0} ELSE FrameTimes) :
       \E cappedDelta \in {CappedDelta(q)} :
         Becomes(update(Game, cappedDelta), "update")
  /\ previousTime' = NextFrameTime(previousTime)
  /\ UNCHANGED <<restarts, launches, calls>>

\* a frame is run: previousTime takes the next timestamp.  Frame is the only
\* action that changes previousTime, no guard disables it and it changes
\* previousTime in every state, so a step is a Frame step exactly if it is
\* a NewTimestamp step that changes previousTime
NewTimestamp == previousTime' = NextFrameTime(previousTime)

NextTurn == PointerDown \/ PointerMove \/ PointerUp \/ Frame

\* games without restart whose frames keep their timestamp
SpecTurn == Init /\ [][NextTurn]_vars

\* loop ends with requestAnimationFrame((time) => this.loop(time)): after
\* every frame another one is run.  The condition is WF_vars(Frame), stated
\* on the variable that every frame changes.
FairSpecTurn == SpecTurn /\ WF_previousTime(NewTimestamp)

\* the times from one animation frame to the next of a display whose frames
\* come 18, 22, 27 and 33 ms apart, over and over, in quarters of a
\* millisecond; they add up to a tenth of a second
PaceTimes == <<72, 88, 108, 132>>

\* a new game of the first definition, whose pickups lengthen the chain
InitPace == Init /\ variant = "grid"

\* Game.loop(timestamp) for those frames: previousTime is the place of the
\* last timestamp in the cycle (0 is the constructor's loop(0))
PaceFrame ==
  /\ \E q \in {IF previousTime = 0 THEN 0 ELSE PaceTimes[previousTime]} :
       \E cappedDelta \in {CappedDelta(q)} :
         Becomes(update(Game, cappedDelta), "update")
  /\ previousTime' = (previousTime % Len(PaceTimes)) + 1
  /\ UNCHANGED <<restarts, launches, calls>>

NextPace == PointerDown \/ PointerMove \/ PointerUp \/ PaceFrame

\* games of the first definition on that display
SpecPace == InitPace /\ [][NextPace]_vars

-----------------------------------------------------------------------------
(* Properties *)

\* C1: at most one of isAiming, isLaunching and isGameOver is true in any
\* state of the game.
C1_ModesExclusive ==
  /\ ~(isAiming /\ isLaunching)
  /\ ~(isAiming /\ isGameOver)
  /\ ~(isLaunching /\ isGameOver)

\* a pointer press arrived while a ball was in flight
C1_Witness == obs.op = "pointerDown" /\ isLaunching /\ balls # <<>>

\* C2: during a launch the balls spawned plus the balls still pending make
\* the chain count read at launchTurn, and finishTurn runs only when no ball
\* is pending and every spawned ball rests, all of that count being spawned.
C2_BallAccounting ==
  /\ isLaunching => Len(balls) + pendingBalls = chainAtLaunch
  /\ obs.fin # <<>> =>
       /\ obs.fin[1].isLaunching
       /\ obs.fin[1].pendingBalls = 0
       /\ Len(obs.fin[1].balls) = chainAtLaunch
       /\ \A i \in 1..Len(obs.fin[1].balls) : obs.fin[1].balls[i].resting

\* a turn of two balls has just ended
C2_Witness == obs.fin # <<>> /\ Len(obs.fin[1].balls) = 2

\* C3: a tick spawns at most one ball, and the deltas of the ticks from one
\* spawn of a turn to the next spawn of that turn sum to at least 0.1 s
\* (ten times their exact sum is at least 1).
C3_SpawnPacing ==
  /\ obs.spawned <= 1
  /\ obs.gap # <<>> => TallyTimes(obs.gap, 10)[1] >= Pow2(26)

\* 2^-50 s, as a tally: more than the rounding errors of  launchTimer -= delta
\* add up to between two spawns (less than 2^-57 s per tick)
TimerRounding == <<0, 4, 0>>

\* C3 as amended: a tick spawns at most one ball, and the deltas of the ticks
\* from one spawn of a turn to the next sum to at least 0.1 s less the
\* rounding error of the timer (to at least 0.1 - 2^-50 s).
C3_SpawnPacingRounded ==
  /\ obs.spawned <= 1
  /\ obs.gap # <<>> =>
       TallyTimes(TallyAdd(obs.gap, TimerRounding), 10)[1] >= Pow2(26)

\* the second ball of a turn has just been spawned, after ticks whose deltas
\* sum to less than 0.1 s
C3_Witness ==
  /\ obs.spawned = 1
  /\ obs.gap # <<>>
  /\ Len(balls) = 2
  /\ TallyTimes(obs.gap, 10)[1] < Pow2(26)

\* C4: finishTurn() called on a game that is not launching changes nothing:
\* not the turn number, nor any other field of the game.
C4_FinishTurnWhenIdleIsNoOp ==
  [][(obs'.op = "finishTurn" /\ ~isLaunching) => UNCHANGED gameVars]_vars

\* C5: a pointer press while launching or after game over, and a pointer
\* move or release while not aiming or while launching, change no field of
\* the game.
C5_InvalidInputIgnored ==
  [][(\/ obs'.op = "pointerDown" /\ (isLaunching \/ isGameOver)
      \/ obs'.op \in {"pointerMove", "pointerUp"} /\ (~isAiming \/ isLaunching))
     => UNCHANGED gameVars]_vars

\* a pointer release arrived while a ball was in flight
C5_Witness == obs.op = "pointerUp" /\ isLaunching /\ balls # <<>>

\* C6: once isGameOver is true nothing but a restart changes any field of
\* the game: ticks and pointer events leave it as it is, game over included.
C6_GameOverAbsorbing ==
  [][(isGameOver /\ obs'.op # "restart") => UNCHANGED gameVars]_vars

\* a tick ran on a game that was already over
C6_Witness == isGameOver /\ obs.op = "update" /\ obs.fin = <<>>

\* C7: the game is over exactly when the row advance at the end of a turn
\* has moved some block to a row r with r * GRID_SIZE >= GAME_HEIGHT -
\* GRID_SIZE: no game that goes on holds such a block, and game over is
\* entered only by a turn-ending tick that moved a block to such a row.
C7_GameOverAtBottomRow ==
  /\ [](~isGameOver =>
          \A i \in 1..Len(blocks) :
            blocks[i].row * GRID_SIZE < GAME_HEIGHT - GRID_SIZE)
  /\ [][(~isGameOver /\ isGameOver') =>
          /\ obs'.op = "update"
          /\ obs'.fin # <<>>
          /\ \E i \in 1..Len(obs'.fin[1].blocks) :
               /\ blocks'[i].row = obs'.fin[1].blocks[i].row + 1
               /\ blocks'[i].row * GRID_SIZE >= GAME_HEIGHT - GRID_SIZE]_vars

\* the tick that ended a turn has ended the game
C7_Witness == isGameOver /\ obs.op = "update" /\ obs.fin # <<>>

\* the last tick ended a turn without ending the game
TurnAdvanced == obs.op = "update" /\ obs.fin # <<>> /\ ~isGameOver

\* the blocks that survived the turn are each one row lower, in their order,
\* and are followed by a new row of at least one block at row 0
RowsDescendedAndRowSpawned ==
  LET old == obs.fin[1].blocks
  IN  /\ Len(blocks) > Len(old)
      /\ \A i \in 1..Len(old) : blocks[i] = [old[i] EXCEPT !.row = @ + 1]
      /\ \A i \in (Len(old) + 1)..Len(blocks) : blocks[i].row = 0

\* C8 as stated: every turn advance that does not end the game moves every
\* surviving block one row down and then spawns a new row at row 0.
C8_EveryAdvanceDescendsAndSpawns == TurnAdvanced => RowsDescendedAndRowSpawned

\* C8: in the grid game every turn advance that does not end the game moves
\* every surviving block one row down and then spawns a new row at row 0;
\* in the barrier game a turn advance leaves the block collection empty.
C8_GridAdvanceDescendsAndSpawns ==
  TurnAdvanced =>
    IF variant = "grid" THEN RowsDescendedAndRowSpawned
    ELSE blocks = <<>> /\ obs.fin[1].blocks = <<>>

\* a turn of the grid game has advanced with blocks left on the board
C8_Witness == TurnAdvanced /\ variant = "grid" /\ obs.fin[1].blocks # <<>>

\* C9: the score is never negative, and no step but a restart lowers it.
C9_ScoreMonotone ==
  /\ [](score >= 0)
  /\ [][obs'.op # "restart" => score' >= score]_vars

\* a collision has just raised the score
C9_Witness ==
  /\ obs.passes # <<>>
  /\ obs.passes[1].score[2] > obs.passes[1].score[1]
  /\ score > 0

\* the hits of a collision pass on pickups
PickupHits(pass) ==
  {h \in 1..Len(pass.hits) : pass.hits[h].kind = "pickup"}

\* the blocks of the sequence blks that are the pickup at cell id
PickupsAt(blks, id) ==
  {j \in 1..Len(blks) :
     blks[j].type = "pickup" /\ <<blks[j].col, blks[j].row>> = id}

\* C10: in a collision pass every pickup the ball overlaps adds exactly 1 to
\* the chain count and 10 to the score, stood on the board before the pass
\* and is gone from it after the pass, and is collected only once.
C10_PickupCollectedOnce ==
  \A n \in 1..Len(obs.passes) :
    LET pass == obs.passes[n]
        blockHits == {h \in 1..Len(pass.hits) : pass.hits[h].kind = "block"}
    IN  /\ pass.chain[2] = pass.chain[1] + Cardinality(PickupHits(pass))
        /\ variant = "grid" =>
             pass.score[2] = pass.score[1] + 10 * Cardinality(PickupHits(pass))
                                           + 5 * Cardinality(blockHits)
        /\ \A h \in PickupHits(pass) :
             /\ Cardinality(PickupsAt(pass.before, pass.hits[h].id)) = 1
             /\ PickupsAt(pass.after, pass.hits[h].id) = {}
             /\ \A h2 \in PickupHits(pass) :
                  pass.hits[h2].id = pass.hits[h].id => h2 = h
             /\ \A m \in (n + 1)..Len(obs.passes) :
                  \A h2 \in PickupHits(obs.passes[m]) :
                    obs.passes[m].hits[h2].id # pass.hits[h].id

\* a ball has just collected a pickup
C10_Witness == \E n \in 1..Len(obs.passes) : PickupHits(obs.passes[n]) # {}

\* what tells an entity of the active collection from the others: the cell
\* of a block, the centre of a barrier
EntityId(e) == IF variant = "grid" THEN <<e.col, e.row>> ELSE <<e.x, e.y>>

\* the identities of the entities of a collection
Ids(coll) == {EntityId(coll[i]) : i \in 1..Len(coll)}

\* the hits of a collision pass on standard blocks and on barriers
StandardHits(pass) ==
  {h \in 1..Len(pass.hits) : pass.hits[h].kind \in {"block", "barrier"}}

\* the standard blocks and barriers of a collection
Standard(coll) ==
  {i \in 1..Len(coll) : variant = "grid" => coll[i].type = "block"}

\* every entity of the active collections has strength >= 1 and is not
\* marked destroyed, and a standard one has taken fewer hits than the
\* strength it was created with, each hit having cost one strength
ActiveEntitiesAlive ==
  LET coll == IF variant = "grid" THEN blocks ELSE barrierBlocks
  IN  /\ \A i \in 1..Len(coll) : coll[i].strength >= 1 /\ ~coll[i].destroyed
      /\ \A i \in Standard(coll) :
           /\ coll[i].hits < coll[i].created
           /\ coll[i].strength = coll[i].created - coll[i].hits

\* a hit marks the entity destroyed exactly when it is the hit that makes
\* as many hits as the strength the entity was created with
DestroyedOnLastHit(pass) ==
  \A h \in StandardHits(pass) :
    /\ pass.hits[h].hits >= 1
    /\ pass.hits[h].strength = pass.hits[h].created - pass.hits[h].hits
    /\ pass.hits[h].destroyed <=> pass.hits[h].hits = pass.hits[h].created

\* the entity id got, in the pass, the hit that marked it destroyed
LastHitIn(pass, id) ==
  \E h \in StandardHits(pass) : pass.hits[h].id = id /\ pass.hits[h].destroyed

\* C11: a standard block or barrier created with strength s stays
\* in the active collection through its first s-1 hits and is marked
\* destroyed and removed exactly on its s-th hit, never earlier and never
\* later; every entity in an active collection has strength >= 1.
C11_RemovedExactlyOnLastHit ==
  /\ ActiveEntitiesAlive
  /\ \A n \in 1..Len(obs.passes) :
       /\ DestroyedOnLastHit(obs.passes[n])
       /\ \A i \in Standard(obs.passes[n].before) :
            LET id == EntityId(obs.passes[n].before[i])
            IN  id \in Ids(obs.passes[n].after) <=> ~LastHitIn(obs.passes[n], id)

\* the blocks that the call of spawnRow logged as row has added
AddedBlocks(row) == SubSeq(row.after, Len(row.before) + 1, Len(row.after))

\* the columns of the standard blocks among the blocks added
StandardColumns(added) ==
  {added[i].col : i \in {j \in 1..Len(added) : added[j].type = "block"}}

\* C12: every call of spawnRow adds standard blocks in pairwise distinct
\* columns, at least min(3, GRID_COLUMNS) = 3 and at most
\* max(3, floor(GRID_COLUMNS * 0.85)) = 5 of them, whatever the RNG state,
\* and a pickup it adds is in a column that none of those blocks uses.
C12_SpawnRowColumns ==
  \A n \in 1..Len(obs.rows) :
    LET added == AddedBlocks(obs.rows[n])
        standard == {j \in 1..Len(added) : added[j].type = "block"}
    IN  /\ \A i, j \in standard : added[i].col = added[j].col => i = j
        /\ Cardinality(standard) >= Min(3, GRID_COLUMNS)
        /\ Cardinality(standard) <= Max(3, (GRID_COLUMNS * 85) \div 100)
        /\ \A j \in 1..Len(added) :
             added[j].type = "pickup" => added[j].col \notin StandardColumns(added)

\* C13: every value that RNG.next() returns, the new state divided by
\* 0xffffffff, is at least 0 and below 1, so that floor(next() *
\* GRID_COLUMNS) is one of 0..GRID_COLUMNS-1.
C13_NextBelowOne ==
  obs.op = "next" =>
    /\ FLeq(FZero, next(rng))
    /\ FLess(next(rng), FOfInt(1))
    /\ FloorMul(rng, GRID_COLUMNS) \in 0..(GRID_COLUMNS - 1)

\* C14: the barrier collection never holds more than MAX_FLOATING_BLOCKS
\* barriers: not between operations, and not before or after any call of
\* spawnFloatingBlock inside one, the forced calls of a collision pass
\* included.
C14_BarrierCap ==
  /\ Len(barrierBlocks) <= MAX_FLOATING_BLOCKS
  /\ \A n \in 1..Len(obs.spawns) :
       /\ Len(obs.spawns[n].before) <= MAX_FLOATING_BLOCKS
       /\ Len(obs.spawns[n].after) <= MAX_FLOATING_BLOCKS

\* a collision pass has just destroyed a barrier with the population at the
\* cap, and its forced replenishment has run
C14_Witness ==
  /\ obs.passes # <<>>
  /\ \E n \in 1..Len(obs.spawns) :
       /\ obs.spawns[n].force
       /\ Len(obs.spawns[n].before) = MAX_FLOATING_BLOCKS

\* C15: a call of spawnFloatingBlock that finds the collection at the cap
\* leaves it unchanged when it is not forced; when it is forced it removes
\* the head of the collection and appends the new barrier at the tail, the
\* other barriers keeping their order.
C15_CapHandling ==
  \A n \in 1..Len(obs.spawns) :
    LET call == obs.spawns[n]
        k == Len(call.before)
    IN  k >= MAX_FLOATING_BLOCKS =>
          IF ~call.force THEN call.after = call.before
          ELSE /\ Len(call.after) = k
               /\ \A i \in 1..(k - 1) : call.after[i] = call.before[i + 1]
               /\ call.after[k] = call.candidate
               /\ \A i \in 1..k : call.before[i] # call.candidate

\* one tick has made an unforced call and a forced call at the cap
C15_Witness ==
  /\ \E n \in 1..Len(obs.spawns) :
       obs.spawns[n].force /\ Len(obs.spawns[n].before) >= MAX_FLOATING_BLOCKS
  /\ \E n \in 1..Len(obs.spawns) :
       ~obs.spawns[n].force /\ Len(obs.spawns[n].before) >= MAX_FLOATING_BLOCKS

\* the last tick of the barrier game has spawned a ball
BallSpawned == variant = "barrier" /\ obs.op = "update" /\ obs.spawned >= 1

\* C16 as stated: each ball spawned by the launch sequencer triggers a
\* forced replenishment: after the spawn a new barrier has been added, the
\* oldest barrier being evicted when the population was at the cap.
C16_BallSpawnForcesBarrier ==
  BallSpawned =>
    /\ Len(obs.spawns) >= 1
    /\ obs.spawns[1].after =
         Append(IF Len(obs.spawns[1].before) >= MAX_FLOATING_BLOCKS
                THEN Tail(obs.spawns[1].before) ELSE obs.spawns[1].before,
                obs.spawns[1].candidate)

\* C16: each ball spawned by the launch sequencer triggers a replenishment
\* that is not forced: after the spawn a new barrier has been added at the
\* tail when the population was below the cap, and the collection is
\* unchanged when the population was at the cap.
C16_BallSpawnAddsBarrierBelowCap ==
  BallSpawned =>
    /\ Len(obs.spawns) >= 1
    /\ obs.spawns[1].after =
         IF Len(obs.spawns[1].before) >= MAX_FLOATING_BLOCKS
         THEN obs.spawns[1].before
         ELSE Append(obs.spawns[1].before, obs.spawns[1].candidate)

\* a ball has just been spawned with the population at the cap
C16_Witness ==
  /\ BallSpawned
  /\ Len(obs.spawns) >= 1
  /\ Len(obs.spawns[1].before) >= MAX_FLOATING_BLOCKS

\* C17: a restart, from any state of the game, a running launch and game
\* over included, leaves turn = 1, score = 0, chain count 1, no pending
\* ball, no ball, the launcher at GAME_WIDTH / 2, no aim angle, isAiming,
\* isLaunching and isGameOver false and, in the barrier game, exactly 6
\* barriers, none of them hit yet.
C17_RestartGivesInitialState ==
  obs.op = "restart" =>
    /\ turn = 1 /\ score = 0 /\ ballChain = 1
    /\ pendingBalls = 0 /\ balls = <<>>
    /\ FMul(baseBallPosition, FOfInt(2)) = FOfInt(GAME_WIDTH)
    /\ turnAngle = NullF
    /\ ~isAiming /\ ~isLaunching /\ ~isGameOver
    /\ variant = "barrier" =>
         /\ Len(barrierBlocks) = 6
         /\ \A i \in 1..6 : barrierBlocks[i].hits = 0 /\ ~barrierBlocks[i].destroyed

\* the barrier game has just been restarted in the middle of a launch
C17_Witness ==
  /\ obs.op = "restart"
  /\ variant = "barrier"
  /\ obs.from.isLaunching
  /\ score = 0

\* the last tick ended a turn that was launched straight up with a chain of
\* one ball, and the ball hit nothing on its way
StraightUpUnobstructed ==
  /\ obs.op = "update"
  /\ obs.fin # <<>>
  /\ obs.fin[1].isLaunching
  /\ obs.fin[1].angle = Halve(FNeg(PI))
  /\ obs.fin[1].chain = 1
  /\ obs.fin[1].sinceLaunch.hits = 0

\* |a - b|
Distance(a, b) ==
  (CHOOSE it \in {<<IF d[1] = 0 THEN 0 ELSE 1, d[2], d[3], d[4]>> : d \in {FSub(a, b)}} : TRUE)

\* the distance between the x at which the ball of the turn just ended came
\* to rest and the launcher's x before the launch
RestError == Distance(obs.fin[1].balls[1].x, obs.fin[1].base)

\* 2^-40 pixel, which is less than 10^-12 pixel
RoundingError == <<1, 0 - 92, 2 ^ 26, 0>>

\* C18 as stated: a turn launched straight up with chain count 1 whose ball
\* meets no block and no barrier ends with the ball at rest at the
\* launcher's x: after finishTurn the launcher is where it was before the
\* launch, the score is what it was, and the turn number is one more.
C18_StraightUpReturns ==
  StraightUpUnobstructed =>
    /\ Len(obs.fin[1].balls) = 1
    /\ obs.fin[1].balls[1].resting
    /\ RestError = FZero
    /\ baseBallPosition = obs.fin[1].base
    /\ score = obs.fin[1].sinceLaunch.score
    /\ turn = obs.fin[1].turn + 1

\* C18: such a turn ends with the ball at rest within 10^-12 pixel of the
\* launcher's x, and exactly at it when the launcher is at 16 pixels or more
\* from the left edge: after finishTurn the launcher is, up to that, where it
\* was before the launch, the score is what it was, and the turn number is
\* one more.
C18_StraightUpReturnsNearly ==
  StraightUpUnobstructed =>
    /\ Len(obs.fin[1].balls) = 1
    /\ obs.fin[1].balls[1].resting
    /\ FLeq(RestError, RoundingError)
    /\ baseBallPosition = obs.fin[1].balls[1].x
    /\ FLeq(FOfInt(16), obs.fin[1].base) => RestError = FZero
    /\ score = obs.fin[1].sinceLaunch.score
    /\ turn = obs.fin[1].turn + 1

\* such a turn has just ended for a launcher that stood at the left wall,
\* and the ball rests away from where the launcher stood
C18_Witness ==
  /\ StraightUpUnobstructed
  /\ FLess(obs.fin[1].base, FOfInt(16))
  /\ RestError # FZero
  /\ turn >= 2

\* the points of the boundary of the rectangle, pixel by pixel, as offsets
\* from its corner
BoundaryPoints ==
  {c \in (0..ProbeSide) \X (0..ProbeSide) :
     c[1] \in {0, ProbeSide} \/ c[2] \in {0, ProbeSide}}

\* the square of the distance from the ball centre at the offset off to the
\* point p of the boundary
SquaredDistance(off, p) ==
  (off[1] - p[1]) * (off[1] - p[1]) + (off[2] - p[2]) * (off[2] - p[2])

\* the circle of the ball at the offset off from the corner holds a point of
\* the boundary of the rectangle inside it: nearer to the centre than
\* BALL_RADIUS
HoldsBoundaryPoint(off) ==
  \E p \in BoundaryPoints : SquaredDistance(off, p) < BALL_RADIUS * BALL_RADIUS

\* the closed disc of the ball at the offset off contains a point of the
\* boundary of the rectangle: at BALL_RADIUS or less from the centre
ContainsBoundaryPoint(off) ==
  \E p \in BoundaryPoints : SquaredDistance(off, p) <= BALL_RADIUS * BALL_RADIUS

\* the centre of the ball at the offset off is outside the rectangle
OutsideRect(off) ==
  \/ off[1] < 0
  \/ off[1] > ProbeSide
  \/ off[2] < 0
  \/ off[2] > ProbeSide

\* the ball at the offset off touches the rectangle from outside: its
\* nearest boundary point is at BALL_RADIUS exactly
TouchesFromOutside(off) ==
  /\ OutsideRect(off)
  /\ ContainsBoundaryPoint(off)
  /\ ~HoldsBoundaryPoint(off)

\* the centre of the ball at the offset off is strictly outside the
\* rectangle grown by BALL_RADIUS on each side
OutsideExpanded(off) ==
  \/ off[1] < 0 - BALL_RADIUS
  \/ off[1] > ProbeSide + BALL_RADIUS
  \/ off[2] < 0 - BALL_RADIUS
  \/ off[2] > ProbeSide + BALL_RADIUS

C20_AimArc ==
  /\ turnAngle # NullF =>
       /\ FLeq(FAdd(FNeg(PI), FRatio(35, 100)), turnAngle)
       /\ FLeq(turnAngle, FNeg(FRatio(35, 100)))
  /\ \A i \in DOMAIN obs.born : FLess(obs.born[i].vy, FZero)

\* a ball has been created in a turn aimed below the horizontal, at the
\* clamped angle
C20_Witness ==
  /\ obs.born # <<>>
  /\ turnAngle = FNeg(FRatio(35, 100))
  /\ FLess(obs.born[1].vy, FZero)

\* the balls were not cleared by the step (finishTurn and reset clear them)
BallsKept == Len(balls') >= Len(balls)

\* the i-th ball comes to rest in the step
ComesToRest(i) ==
  /\ balls'[i].resting
  /\ i \in DOMAIN balls => ~balls[i].resting

\* a step in which balls come to rest only by landing, resting balls lie
\* still on the base line and resting balls are left alone
RestingStep ==
  /\ \A i \in DOMAIN balls' :
       ComesToRest(i) =>
         /\ obs'.op = "update"
         /\ \E n \in DOMAIN obs'.landed :
               /\ obs'.landed[n].i = i
               /\ ~obs'.landed[n].ball.resting
               /\ FLeq(FOfInt(baseY),
                       FAdd(obs'.landed[n].ball.y, FOfInt(BALL_RADIUS)))
               /\ FLess(FZero, obs'.landed[n].ball.vy)
               /\ balls'[i].x = obs'.landed[n].ball.x
  /\ \A i \in DOMAIN balls' :
       balls'[i].resting =>
         /\ balls'[i].y = FOfInt(baseY - BALL_RADIUS)
         /\ balls'[i].vx = FZero
         /\ balls'[i].vy = FZero
  /\ \A i \in DOMAIN balls :
       balls[i].resting /\ BallsKept =>
         /\ balls'[i] = balls[i]
         /\ \A n \in DOMAIN obs'.passes : obs'.passes[n].ball # i

\* C21: a ball comes to rest only in a tick in which, after its movement and
\* its collision pass, its lower edge is at or below the base line with
\* vy > 0; a resting ball lies at y = baseY - BALL_RADIUS with zero velocity,
\* no later tick changes its x, y or velocity and none runs a collision pass
\* with a hit for it, until the balls are cleared.
C21_RestingPermanent == [][RestingStep]_vars

\* a tick has moved a ball in flight while another ball, at rest since an
\* earlier tick, stays where it landed
C21_Witness ==
  /\ obs.op = "update"
  /\ \E j \in DOMAIN balls : ~balls[j].resting /\ balls[j].prevY # balls[j].y
  /\ \E i \in DOMAIN balls :
       /\ balls[i].resting
       /\ \A n \in DOMAIN obs.landed : obs.landed[n].i # i

\* the position of the ball before its update, grown by the radius, lay
\* fully above or fully below the vertical span of the rectangle
ClearOfSpan(bounce) ==
  \/ FLeq(FAdd(bounce.from.prevY, FOfInt(BALL_RADIUS)), bounce.rect.y)
  \/ FLeq(FAdd(bounce.rect.y, bounce.rect.h),
          FSub(bounce.from.prevY, FOfInt(BALL_RADIUS)))

\* exactly the vertical velocity of the ball is inverted by the hit
InvertsVy(bounce) ==
  /\ bounce.to.vy = FNeg(bounce.from.vy)
  /\ bounce.to.vx = bounce.from.vx

\* exactly the horizontal velocity of the ball is inverted by the hit
InvertsVx(bounce) ==
  /\ bounce.to.vx = FNeg(bounce.from.vx)
  /\ bounce.to.vy = bounce.from.vy

\* C22: on each detected intersection the axis is decided from the position
\* the ball had before its update: if that y, grown by the radius, lay fully
\* above or fully below the vertical span of the rectangle, exactly the
\* vertical velocity is inverted, otherwise exactly the horizontal velocity;
\* one component changes sign per intersected entity.
C22_AxisFromPriorPosition ==
  \A n \in DOMAIN obs.passes :
    \A h \in DOMAIN obs.passes[n].hits :
      IF ClearOfSpan(obs.passes[n].hits[h].bounce)
      THEN InvertsVy(obs.passes[n].hits[h].bounce)
      ELSE InvertsVx(obs.passes[n].hits[h].bounce)

\* a step of a turn in which the landing position is set once, by the first
\* ball that comes to rest, balls start from the launcher before that and
\* from the landing position after, and the end of the turn moves the
\* launcher to the landing position
LandingStep ==
  /\ isLaunching /\ activeBallChainLanding # NullF =>
       activeBallChainLanding' = activeBallChainLanding
  /\ isLaunching /\ activeBallChainLanding = NullF /\ obs'.op = "update" =>
       activeBallChainLanding' =
         IF obs'.landed = <<>> THEN NullF ELSE obs'.landed[1].ball.x
  /\ isLaunching /\ obs'.op = "update" =>
       \A n \in DOMAIN obs'.born :
         /\ obs'.born[n].x = IF activeBallChainLanding = NullF
                             THEN baseBallPosition
                             ELSE activeBallChainLanding
         /\ obs'.born[n].y = FOfInt(baseY - BALL_RADIUS)
  /\ isLaunching /\ obs'.op = "update" /\ obs'.fin # <<>> =>
       /\ activeBallChainLanding' # NullF
       /\ baseBallPosition' = activeBallChainLanding'

\* C23: within a turn the landing position is set once, to the x of the
\* first ball that comes to rest, and does not change afterwards in that
\* turn; balls spawned before any ball has landed start at the launcher x,
\* balls spawned after start at the landing x, and finishTurn moves the
\* launcher to the landing x.
C23_LandingSetOnce == [][LandingStep]_vars

\* the first ball of a turn rests at a landing position away from the launcher
\* and the second ball of the chain has just been spawned there
C23_Witness ==
  /\ obs.op = "update"
  /\ isLaunching
  /\ Len(balls) = 2
  /\ balls[1].resting
  /\ obs.born # <<>>
  /\ obs.born[1].x = activeBallChainLanding
  /\ obs.born[1].x # baseBallPosition

\* no entity of the sequence is marked destroyed
NoneDestroyed(entities) ==
  \A i \in DOMAIN entities : ~entities[i].destroyed

\* the hit came to an entity that no earlier hit had destroyed: a block or
\* barrier had strength left for it, a pickup had not been collected
HitOnLiveEntity(hit) ==
  IF hit.kind = "pickup" THEN hit.hits = 1
  ELSE hit.strength >= 0 /\ hit.hits <= hit.created

\* the hits of the pass after its n-th hit spare the entity of the n-th hit
SparedAfter(pass, n) ==
  \A m \in DOMAIN pass.hits : m > n => pass.hits[m].id # pass.hits[n].id

\* C24: a destroyed block or barrier is never collided with again: no active
\* collection holds an entity with destroyed = true at the end of a
\* collision pass, and an entity destroyed in a pass receives no further hit
\* (no strength decrement, no score award) in that pass or a later one.
C24_DestroyedNeverHitAgain ==
  /\ NoneDestroyed(blocks)
  /\ NoneDestroyed(barrierBlocks)
  /\ \A n \in DOMAIN obs.passes :
       /\ NoneDestroyed(obs.passes[n].before)
       /\ NoneDestroyed(obs.passes[n].after)
       /\ \A h \in DOMAIN obs.passes[n].hits :
            /\ HitOnLiveEntity(obs.passes[n].hits[h])
            /\ obs.passes[n].hits[h].destroyed => SparedAfter(obs.passes[n], h)

\* a collision pass has destroyed an entity that had been hit in an earlier
\* pass, and has left other entities in the collection
C24_Witness ==
  \E n \in DOMAIN obs.passes :
    /\ obs.passes[n].after # <<>>
    /\ \E h \in DOMAIN obs.passes[n].hits :
         /\ obs.passes[n].hits[h].destroyed
         /\ obs.passes[n].hits[h].hits >= 2

\* the ball lies inside the side walls and below the top wall
InsideWalls(b) ==
  /\ FLeq(FOfInt(BALL_RADIUS), b.x)
  /\ FLeq(b.x, FOfInt(GAME_WIDTH - BALL_RADIUS))
  /\ FLeq(FOfInt(BALL_RADIUS), b.y)

\* C25: after every Ball.update of a ball that is not resting the ball lies
\* inside the side walls and the top wall, BALL_RADIUS <= x <= GAME_WIDTH -
\* BALL_RADIUS and y >= BALL_RADIUS, for every step size from 0 to 0.033 and
\* every interleaving of wall reflections with the velocity inversions of
\* collisions.
C25_InsideWalls ==
  /\ \A i \in DOMAIN balls : ~balls[i].resting => InsideWalls(balls[i])
  /\ \A n \in DOMAIN obs.landed : InsideWalls(obs.landed[n].ball)

\* Ball.update has brought back to the left wall a ball whose step had
\* crossed it on the way down, its vertical velocity inverted before
C25_Witness ==
  /\ obs.op = "Ball.update"
  /\ FLess(FZero, balls[1].vy)
  /\ FLess(balls[1].prevY, balls[1].y)
  /\ FLess(FOfInt(BALL_RADIUS), balls[1].prevX)
  /\ balls[1].x = FOfInt(BALL_RADIUS)
  /\ FLess(FZero, balls[1].vx)

\* C26: destroying a barrier never shrinks the barrier population: after
\* every collision pass (after its pruning) the active barriers are at least
\* as many as before the pass, also when the population is at the cap of
\* MAX_FLOATING_BLOCKS.
C26_DestructionKeepsPopulation ==
  variant = "barrier" =>
    \A n \in DOMAIN obs.passes :
      Len(obs.passes[n].after) >= Len(obs.passes[n].before)

\* the identities (positions) of the barriers of a sequence
BarrierIds(barriers) == {<<barriers[i].x, barriers[i].y>> : i \in DOMAIN barriers}

\* how many times the pass has tested the barrier with the identity id
TimesTested(pass, id) == Cardinality({t \in DOMAIN pass.tested : pass.tested[t] = id})

\* C27: in one collision pass for one ball every barrier that is in the
\* collection and not destroyed when the pass starts is tested against the
\* ball exactly once, and no barrier created during the pass is tested in it,
\* also when a destruction in the pass triggers a forced spawn that appends
\* to the collection and, at the cap, removes its head.
C27_EachBarrierTestedOnce ==
  variant = "barrier" =>
    \A n \in DOMAIN obs.passes :
      /\ \A id \in BarrierIds(obs.passes[n].before) :
           TimesTested(obs.passes[n], id) = 1
      /\ \A t \in DOMAIN obs.passes[n].tested :
           obs.passes[n].tested[t] \in BarrierIds(obs.passes[n].before)

\* C28: spawnRow terminates for every 32-bit RNG state, state 0 included:
\* its loop finds the required number of distinct columns after finitely
\* many draws, so every call that has entered the loop leaves it.
C28_SpawnRowTerminates == rowLoop.running ~> ~rowLoop.running

\* C29: every launched turn eventually ends: from any state with isLaunching,
\* under repeated frames with positive delta and no restart, a state without
\* isLaunching (idle after finishTurn, or game over) is reached.
C29_TurnEnds == isLaunching ~> ~isLaunching

\* a frame has ended a turn of two balls, all at rest, in a game whose balls
\* have hit blocks
C29_Witness ==
  /\ obs.op = "update"
  /\ ~isLaunching
  /\ obs.fin # <<>>
  /\ obs.fin[1].isLaunching
  /\ obs.fin[1].score > 0
  /\ Len(obs.fin[1].balls) = 2
  /\ \A i \in DOMAIN obs.fin[1].balls : obs.fin[1].balls[i].resting


=============================================================================
